---- MODULE Spec2Model ----
(***************************************************************************)
(* vibe-dj: the indexing pipeline (LibraryIndexer.index_library), the      *)
(* metadata store (MusicDatabase) and the persisted similarity index       *)
(* (SimilarityIndex), as a state machine.                                  *)
(*                                                                         *)
(* A file is a number 1..NumFiles (its path; os.walk lists the paths in    *)
(* one fixed order).  fs[f] is the file's mtime, 0 when the file is not    *)
(* on disk.  The content of a file is identified by its mtime, so a        *)
(* feature vector extracted from f "at version v" is the vector of the     *)
(* content f had when its mtime was v.                                     *)
(*                                                                         *)
(* Spec is the pipeline with kills and config changes; SpecPolicy is the   *)
(* maintenance decision alone; SpecPool is the pipeline with the worker    *)
(* pool of the feature phase and the database session in detail;           *)
(* SpecIndex is a SimilarityIndex object driven call by call.              *)
(***************************************************************************)
EXTENDS Integers, Sequences, FiniteSets, TLC

\* ------------------------------------------------------------------ bounds
NumFiles == 2
MaxMtime == 2
MaxEvents == 2
MaxCurrent == 100
MaxChanged == 20
MaxVectors == 2
MaxIndexSize == 3

Files == 1..NumFiles

\* config.n_mfcc values a deployment may be configured with
NMfccChoices == {13, 20}

\* analyzer.py: feature_vector = mfcc (n_mfcc) ++ chroma padded to 32 ++ 5 scalars
FeatureDim(n_mfcc) == n_mfcc + 32 + 5

\* files whose tags mutagen cannot read (extract_metadata falls back)
Untagged == {1}

NoIndex == [state |-> "none"]
CorruptIndex == [state |-> "corrupt"]
AbsentIndex == [state |-> "absent"]
\* an operation of SimilarityIndex raised
Error == [state |-> "error"]
\* features=None
NoFeatures == [src |-> 0, ver |-> 0, dim |-> 0]
NoSnap == [state |-> "none"]
NoExpect == [state |-> "none"]
NoResume == <<0>>

Max(S) == CHOOSE x \in S : \A y \in S : y <= x
Min(S) == CHOOSE x \in S : \A y \in S : x <= y
Range(s) == {s[i] : i \in DOMAIN s}

\* ------------------------------------------------------------------ state
VARIABLES
    fs,             \* the library on disk: file -> mtime (0: absent)
    n_mfcc,         \* config.n_mfcc of the deployment
    db,             \* MusicDatabase: [songs: path -> row, features: song_id -> vector]
    indexFile,      \* the file at config.faiss_index_path
    memIndex,       \* SimilarityIndex._index / _dimension of the running process
    pc,             \* position of index_library
    allFiles,       \* all_files (the scan of this run)
    filesToProcess, \* files_to_process
    metaPos,        \* files of files_to_process handled by the metadata phase
    metadataCount,  \* metadata_count
    pending,        \* futures of the feature phase that have not completed
    submitted,      \* file_paths handed to the executor in this run
    featuresCount,  \* features_count / processed
    deletedCount,   \* deleted_count
    maintPath,      \* the branch update_similarity_index_incremental logged in this run
    events,         \* changes made to the library or the config so far
    snap,           \* history: the store and index file a re-run started from
    expect,         \* history: what the first run of this episode ends with if nothing stops it
    killedAt,       \* history: "none", or where this episode's runs were killed:
                    \*   "meta" (in the metadata phase only) or "later"
    resume,         \* history: the selected files a kill in the metadata phase left unprocessed
    policy,         \* the inputs and the outcome of one maintenance decision
    file_paths,     \* extract_features_phase: file_paths, in the order of the submits
    futures,        \* extract_features_phase: the state of the future of each submit
    session,        \* MusicDatabase._session: "active", or "failed" after a write raised
    prevFailed,     \* history: the paths whose extraction failed in the feature phase before
    sim,            \* a SimilarityIndex object: [index, dimension]
    simFile,        \* the file the object saves to and loads from
    simCall,        \* the last call made on the object and whether it raised
    gen,            \* one PlaylistGenerator.generate call: its store, index, arguments and outcome
    jobs,           \* JobManager._jobs, in insertion order
    cb,             \* one call made with progress_callback=...: the callee, its outcome, the calls received
    writer,         \* a thread inside build_index / save on the shared object: its position and arguments
    reader,         \* what a concurrent reader thread observed last
    meta,           \* one extract_metadata_phase call: its arguments, the session and what is committed
    workers         \* one extract_features_phase call, thread by thread: the futures and the loop over them

vars == <<fs, n_mfcc, db, indexFile, memIndex, pc, allFiles, filesToProcess,
          metaPos, metadataCount, pending, submitted, featuresCount,
          deletedCount, maintPath, events, snap, expect, killedAt, resume, policy,
          file_paths, futures, session, prevFailed, sim, simFile, simCall,
          gen, jobs, cb, writer, reader, meta, workers>>

poolVars == <<file_paths, futures, session, prevFailed>>

simVars == <<sim, simFile, simCall>>

genVars == <<gen>>

jobVars == <<jobs, cb>>

raceVars == <<writer, reader>>

phaseVars == <<meta, workers>>

aux == <<poolVars, simVars, genVars, jobVars, raceVars, phaseVars>>

history == <<snap, expect, killedAt, resume>>

runVars == <<allFiles, filesToProcess, metaPos, metadataCount, pending,
             submitted, featuresCount, deletedCount, maintPath>>

Running == pc \in {"meta", "feat", "featwait", "clean", "maint", "save"}

\* ------------------------------------------------------------------ MusicDatabase

\* songs.id is an INTEGER PRIMARY KEY without the AUTOINCREMENT keyword:
\* SQLite gives a new row the largest rowid in the table plus one.
NextId(songs) ==
    IF DOMAIN songs = {} THEN 1
    ELSE Max({songs[f].id : f \in DOMAIN songs}) + 1

\* add_song as it would be if it added the features of a Track that has
\* some as a second row, under a new id, instead of overwriting
add_song_second_row(d, song, features) ==
    LET path == song.file_path
        existing == path \in DOMAIN d.songs
        merged == IF existing
                  THEN [d.songs[path] EXCEPT !.title = song.title,
                                             !.last_modified = song.last_modified]
                  ELSE [song EXCEPT !.id = NextId(d.songs)]
        songs2 == [f \in DOMAIN d.songs \cup {path} |->
                      IF f = path THEN merged ELSE d.songs[f]]
        row == IF merged.id \in DOMAIN d.features THEN NextId(songs2) ELSE merged.id
        feats2 == IF features = NoFeatures THEN d.features
                  ELSE [i \in DOMAIN d.features \cup {row} |->
                           IF i = row THEN features ELSE d.features[i]]
    IN [songs |-> songs2, features |-> feats2]

\* add_song as it would be if it replaced the row of an existing path by a
\* newly inserted one
add_song_replaces_row(d, song, features) ==
    LET path == song.file_path
        merged == [song EXCEPT !.id = NextId(d.songs)]
        songs2 == [f \in DOMAIN d.songs \cup {path} |->
                      IF f = path THEN merged ELSE d.songs[f]]
        feats2 == IF features = NoFeatures THEN d.features
                  ELSE [i \in DOMAIN d.features \cup {merged.id} |->
                           IF i = merged.id THEN features ELSE d.features[i]]
    IN [songs |-> songs2, features |-> feats2]

\* add_song as it would be if an existing row kept its last_modified
add_song_keeps_mtime(d, song, features) ==
    LET path == song.file_path
        existing == path \in DOMAIN d.songs
        merged == IF existing
                  THEN [d.songs[path] EXCEPT !.title = song.title]
                  ELSE [song EXCEPT !.id = NextId(d.songs)]
        songs2 == [f \in DOMAIN d.songs \cup {path} |->
                      IF f = path THEN merged ELSE d.songs[f]]
        feats2 == IF features = NoFeatures THEN d.features
                  ELSE [i \in DOMAIN d.features \cup {merged.id} |->
                           IF i = merged.id THEN features ELSE d.features[i]]
    IN [songs |-> songs2, features |-> feats2]

\* MusicDatabase.add_song(song, features)
add_song(d, song, features) ==
    LET path == song.file_path
        existing == path \in DOMAIN d.songs
        merged == IF existing
                  THEN [d.songs[path] EXCEPT !.title = song.title,
                                             !.last_modified = song.last_modified]
                  ELSE [song EXCEPT !.id = NextId(d.songs)]
        songs2 == [f \in DOMAIN d.songs \cup {path} |->
                      IF f = path THEN merged ELSE d.songs[f]]
        feats2 == IF features = NoFeatures THEN d.features
                  ELSE [i \in DOMAIN d.features \cup {merged.id} |->
                           IF i = merged.id THEN features ELSE d.features[i]]
    IN [songs |-> songs2, features |-> feats2]

\* delete_song as it would be without the cascade to the features row
delete_song_no_cascade(d, path) ==
    IF path \in DOMAIN d.songs
    THEN [songs |-> [f \in DOMAIN d.songs \ {path} |-> d.songs[f]],
          features |-> d.features]
    ELSE d

\* MusicDatabase.delete_song(file_path); the Song.features relationship
\* cascades the delete to the features row
delete_song(d, path) ==
    IF path \in DOMAIN d.songs
    THEN LET id == d.songs[path].id
         IN [songs |-> [f \in DOMAIN d.songs \ {path} |-> d.songs[f]],
             features |-> [i \in DOMAIN d.features \ {id} |-> d.features[i]]]
    ELSE d

\* MusicDatabase.get_all_file_paths_with_mtime()
get_all_file_paths_with_mtime(d) ==
    [f \in DOMAIN d.songs |-> d.songs[f].last_modified]

\* MusicDatabase.get_songs_without_features(): the paths of the rows
get_songs_without_features(d) ==
    {f \in DOMAIN d.songs : d.songs[f].id \notin DOMAIN d.features}

\* MusicDatabase.get_indexing_stats()['songs_with_features']
songs_with_features(d) == Cardinality(DOMAIN d.features)

RECURSIVE IdsAscending(_)
IdsAscending(S) ==
    IF S = {} THEN <<>>
    ELSE LET m == Min(S) IN <<m>> \o IdsAscending(S \ {m})

\* MusicDatabase.get_all_songs_with_features(): (song.id, features) by Song.id
get_all_songs_with_features(d) ==
    LET ids == IdsAscending({d.songs[f].id : f \in DOMAIN d.songs} \cap DOMAIN d.features)
    IN [k \in 1..Len(ids) |-> [id |-> ids[k], vec |-> d.features[ids[k]]]]

\* ------------------------------------------------------------------ AudioAnalyzer

\* AudioAnalyzer.extract_metadata: the tags, or the basename fallback
extract_metadata(f, disk) ==
    IF disk[f] = 0 \/ f \in Untagged THEN "basename" ELSE "tags"

\* AudioAnalyzer.extract_features on a readable file
extract_features(f, disk, mfcc) ==
    [src |-> f, ver |-> disk[f], dim |-> FeatureDim(mfcc)]

\* ------------------------------------------------------------------ SimilarityIndex

\* SimilarityIndex.size
size(ix) == IF ix.state = "ok" THEN Len(ix.items) ELSE 0

\* np.array(list of vectors) has a second axis only if all have one length
Homogeneous(items) == \A i, j \in DOMAIN items : items[i].vec.dim = items[j].vec.dim

\* SimilarityIndex.build_index(vectors, song_ids): the new index, or Error
build_index(items) ==
    IF Len(items) = 0 \/ ~Homogeneous(items) THEN Error
    ELSE [state |-> "ok", d |-> items[1].vec.dim, items |-> items]

\* SimilarityIndex.add_vectors(vectors, song_ids): the new index, or Error
add_vectors(ix, items) ==
    IF ix.state # "ok" \/ ~Homogeneous(items) THEN Error
    ELSE IF Len(items) > 0 /\ items[1].vec.dim # ix.d THEN Error
    ELSE [ix EXCEPT !.items = ix.items \o items]

\* SimilarityIndex.load(): the loaded index, or Error
load(file) == IF file.state = "ok" THEN file ELSE Error

\* ------------------------------------------------------------------ LibraryIndexer

RECURSIVE scan_from(_, _)
scan_from(disk, f) ==
    IF f > NumFiles THEN <<>>
    ELSE (IF disk[f] > 0 THEN <<f>> ELSE <<>>) \o scan_from(disk, f + 1)

\* LibraryIndexer.scan_files
scan_files(disk) == scan_from(disk, 1)

RECURSIVE get_files_to_process_ge(_, _, _)
\* get_files_to_process as it would be with >= for >
get_files_to_process_ge(files, existing, disk) ==
    IF files = <<>> THEN <<>>
    ELSE LET f == Head(files)
             rest == get_files_to_process_ge(Tail(files), existing, disk)
         IN IF f \notin DOMAIN existing \/ disk[f] >= existing[f]
            THEN <<f>> \o rest
            ELSE rest

RECURSIVE get_files_to_process_ne(_, _, _)
\* get_files_to_process as it would be with != for >
get_files_to_process_ne(files, existing, disk) ==
    IF files = <<>> THEN <<>>
    ELSE LET f == Head(files)
             rest == get_files_to_process_ne(Tail(files), existing, disk)
         IN IF f \notin DOMAIN existing \/ disk[f] # existing[f]
            THEN <<f>> \o rest
            ELSE rest

RECURSIVE get_files_to_process(_, _, _)
\* LibraryIndexer.get_files_to_process
get_files_to_process(files, existing, disk) ==
    IF files = <<>> THEN <<>>
    ELSE LET f == Head(files)
             rest == get_files_to_process(Tail(files), existing, disk)
         IN IF f \notin DOMAIN existing \/ disk[f] > existing[f]
            THEN <<f>> \o rest
            ELSE rest

RECURSIVE delete_all(_, _)
delete_all(d, S) ==
    IF S = {} THEN d
    ELSE LET f == Min(S) IN delete_all(delete_song(d, f), S \ {f})

\* LibraryIndexer.clean_deleted_files: [db, deleted_count]
clean_deleted_files(d, scanned_files) ==
    LET scanned_set == Range(scanned_files)
        existing_paths == get_all_file_paths_with_mtime(d)
        gone == {f \in DOMAIN existing_paths : f \notin scanned_set}
    IN [db |-> delete_all(d, gone), deleted_count |-> Cardinality(gone)]

\* the comparison as it would be with >= for >
LargeUpdate_ge(new_song_count, current_index_size) ==
    new_song_count * 100 >= 10 * (IF current_index_size > 1 THEN current_index_size ELSE 1)

\* the comparison of update_similarity_index_incremental:
\* (new_song_count / max(current_index_size, 1)) * 100 > 10
LargeUpdate(new_song_count, current_index_size) ==
    new_song_count * 100 > 10 * (IF current_index_size > 1 THEN current_index_size ELSE 1)

\* LibraryIndexer.rebuild_similarity_index up to its save():
\* [mem: the index in memory, then: "save" | "return" | "raise"]
rebuild_similarity_index(d, mem) ==
    LET songs == get_all_songs_with_features(d)
        built == build_index(songs)
    IN IF Len(songs) = 0 THEN [mem |-> mem, then |-> "return", path |-> "skip"]
       ELSE IF built = Error THEN [mem |-> mem, then |-> "raise", path |-> "rebuild"]
       ELSE [mem |-> built, then |-> "save", path |-> "rebuild"]

\* the new_songs of the incremental path
new_songs(d, current_index_size) ==
    LET songs == get_all_songs_with_features(d)
        all_song_ids == {songs[k].id : k \in DOMAIN songs}
    IN SelectSeq(songs, LAMBDA s : s.id > current_index_size \/ s.id \notin all_song_ids)

\* except Exception: rebuild_similarity_index(); `step` is what raised
fallback(d, mem, step) ==
    [rebuild_similarity_index(d, mem) EXCEPT !.path = step]

\* the branch update_similarity_index_incremental takes with a loadable index
maintenance_branch(index_exists, current_index_size, new_song_count) ==
    IF ~index_exists THEN "build"
    ELSE IF LargeUpdate(new_song_count, current_index_size) THEN "rebuild"
    ELSE "incremental"

\* LibraryIndexer.update_similarity_index_incremental(new_song_count) up to
\* its save(): [mem, then, path]
update_similarity_index_incremental(d, file, mem, new_song_count) ==
    IF songs_with_features(d) = 0 THEN [mem |-> mem, then |-> "return", path |-> "skip"]
    ELSE IF file.state = "absent"
    THEN [rebuild_similarity_index(d, mem) EXCEPT !.path = "build"]
    ELSE LET loaded == load(file) IN
         IF loaded = Error THEN fallback(d, mem, "fallback_load")
         ELSE IF maintenance_branch(TRUE, size(loaded), new_song_count) = "rebuild"
         THEN LET r == rebuild_similarity_index(d, loaded)
              IN IF r.then = "raise" THEN fallback(d, loaded, "fallback_rebuild") ELSE r
         ELSE LET new == new_songs(d, size(loaded))
                  added == add_vectors(loaded, new)
              IN IF Len(new) = 0
                 THEN [mem |-> loaded, then |-> "return", path |-> "incremental"]
                 ELSE IF added = Error THEN fallback(d, loaded, "fallback_add")
                 ELSE [mem |-> added, then |-> "save", path |-> "incremental"]

\* the Song extract_metadata_phase builds for a file
MetaSong(f, disk) ==
    [id |-> 0, file_path |-> f, title |-> extract_metadata(f, disk),
     last_modified |-> disk[f]]

\* the song ids held by an index file
IndexIds(file) ==
    IF file.state = "ok" THEN {file.items[k].id : k \in DOMAIN file.items} ELSE {}

RECURSIVE metadata_all(_, _, _)
\* extract_metadata_phase run to its end
metadata_all(d, files, disk) ==
    IF files = <<>> THEN d
    ELSE metadata_all(add_song(d, MetaSong(Head(files), disk), NoFeatures),
                      Tail(files), disk)

RECURSIVE features_all(_, _, _, _)
\* extract_features_phase run to its end, every extraction succeeding
features_all(d, S, disk, mfcc) ==
    IF S = {} THEN d
    ELSE LET f == Min(S)
         IN features_all(add_song(d, d.songs[f], extract_features(f, disk, mfcc)),
                         S \ {f}, disk, mfcc)

\* index_library run from start to end with nothing stopping it and every
\* extraction succeeding: the store and the ids of the index file it leaves
UninterruptedRun(disk, d, file, mfcc) ==
    LET all == scan_files(disk)
        sel == get_files_to_process(all, get_all_file_paths_with_mtime(d), disk)
        d1 == metadata_all(d, sel, disk)
        need == get_songs_without_features(d1)
        d2 == features_all(d1, need, disk, mfcc)
        c == clean_deleted_files(d2, all)
        u == update_similarity_index_incremental(c.db, file, NoIndex, Cardinality(need))
        file2 == IF (Cardinality(need) > 0 \/ Len(sel) > 0) /\ u.then = "save"
                 THEN u.mem ELSE file
    IN [state |-> "ok", db |-> c.db, ids |-> IndexIds(file2)]

\* ------------------------------------------------------------------ Init
Init ==
    /\ fs \in [Files -> 0..1]
    /\ n_mfcc = 13
    /\ db = [songs |-> <<>>, features |-> <<>>]
    /\ indexFile = AbsentIndex
    /\ memIndex = NoIndex
    /\ pc = "idle"
    /\ allFiles = <<>>
    /\ filesToProcess = <<>>
    /\ metaPos = 0
    /\ metadataCount = 0
    /\ pending = {}
    /\ submitted = {}
    /\ featuresCount = 0
    /\ deletedCount = 0
    /\ maintPath = "none"
    /\ events = 0
    /\ snap = NoSnap
    /\ expect = NoExpect
    /\ killedAt = "none"
    /\ resume = NoResume
    /\ policy = [state |-> "none"]
    /\ file_paths = <<>>
    /\ futures = <<>>
    /\ session = "active"
    /\ prevFailed = {}
    /\ sim = [index |-> NoIndex, dimension |-> 0]
    /\ simFile = AbsentIndex
    /\ simCall = [op |-> "none", raised |-> FALSE, case |-> ""]
    /\ gen = [state |-> "none"]
    /\ jobs = <<>>
    /\ cb = [state |-> "none"]
    /\ writer = [pc |-> "idle", calls |-> 0]
    /\ reader = [state |-> "none"]
    /\ meta = [state |-> "none"]
    /\ workers = [state |-> "none"]

\* a change of the library or of the config ends what the history variables follow
Forget ==
    /\ snap' = NoSnap
    /\ expect' = NoExpect
    /\ killedAt' = "none"
    /\ resume' = NoResume

\* ------------------------------------------------------------------ the library and the config change

\* a file is created, replaced or touched between two runs
WriteFile(f, m) ==
    /\ events < MaxEvents
    /\ pc = "idle"
    /\ m # fs[f]
    /\ fs' = [fs EXCEPT ![f] = m]
    /\ events' = events + 1
    /\ Forget
    /\ UNCHANGED <<n_mfcc, db, indexFile, memIndex, pc, runVars, policy, aux>>

\* a file is removed from the library: between two runs, or after the scan
\* of a run whose metadata phase has not reached it yet
RemoveFile(f) ==
    /\ events < MaxEvents
    /\ pc \in {"idle", "meta"}
    /\ fs[f] > 0
    /\ fs' = [fs EXCEPT ![f] = 0]
    /\ events' = events + 1
    /\ Forget
    /\ UNCHANGED <<n_mfcc, db, indexFile, memIndex, pc, runVars, policy, aux>>

\* the operator edits n_mfcc between two runs
ChangeConfig(n) ==
    /\ events < MaxEvents
    /\ pc = "idle"
    /\ n # n_mfcc
    /\ n_mfcc' = n
    /\ events' = events + 1
    /\ Forget
    /\ UNCHANGED <<fs, db, indexFile, memIndex, pc, runVars, policy, aux>>

\* ------------------------------------------------------------------ index_library

\* index_library: scan_files and get_files_to_process
StartRun ==
    /\ pc = "idle"
    /\ allFiles' = scan_files(fs)
    /\ filesToProcess' = get_files_to_process(scan_files(fs),
                                              get_all_file_paths_with_mtime(db), fs)
    /\ pc' = IF filesToProcess' # <<>> THEN "meta" ELSE "feat"
    /\ UNCHANGED <<memIndex, metaPos, metadataCount, pending, submitted,
                   featuresCount, deletedCount, maintPath>>
    /\ IF killedAt # "none"
       THEN UNCHANGED <<expect, killedAt, resume>>
       ELSE /\ expect' = UninterruptedRun(fs, db, indexFile, n_mfcc)
            /\ killedAt' = "none"
            /\ resume' = NoResume
    /\ UNCHANGED <<fs, n_mfcc, db, indexFile, events, snap, policy, aux>>

\* extract_metadata_phase: one iteration of its loop
MetaStep ==
    /\ pc = "meta"
    /\ LET f == filesToProcess[metaPos + 1]
       IN IF fs[f] = 0
          THEN \* os.path.getmtime raises; nothing catches it
               /\ pc' = "failed"
               /\ UNCHANGED <<db, metaPos, metadataCount>>
          ELSE /\ db' = add_song(db, MetaSong(f, fs), NoFeatures)
               /\ metaPos' = metaPos + 1
               /\ metadataCount' = metaPos + 1
               /\ pc' = IF metaPos + 1 = Len(filesToProcess) THEN "feat" ELSE "meta"
    /\ UNCHANGED <<fs, n_mfcc, indexFile, memIndex, allFiles, filesToProcess,
                   pending, submitted, featuresCount, deletedCount, maintPath,
                   events, history, policy, aux>>

\* extract_features_phase as it would be if it took its work list from the
\* files_to_process of this run
FeatStart_from_selection ==
    /\ pc = "feat"
    /\ LET songs_needing_features ==
               get_songs_without_features(db) \cap Range(filesToProcess)
       IN /\ pending' = songs_needing_features
          /\ submitted' = songs_needing_features
          /\ pc' = IF songs_needing_features = {} THEN "clean" ELSE "featwait"
    /\ UNCHANGED <<fs, n_mfcc, db, indexFile, memIndex, allFiles, filesToProcess,
                   metaPos, metadataCount, featuresCount, deletedCount, maintPath,
                   events, history, policy, aux>>

\* extract_features_phase: get_songs_without_features and the submits
FeatStart ==
    /\ pc = "feat"
    /\ LET songs_needing_features == get_songs_without_features(db)
       IN /\ pending' = songs_needing_features
          /\ submitted' = songs_needing_features
          /\ pc' = IF songs_needing_features = {} THEN "clean" ELSE "featwait"
    /\ UNCHANGED <<fs, n_mfcc, db, indexFile, memIndex, allFiles, filesToProcess,
                   metaPos, metadataCount, featuresCount, deletedCount, maintPath,
                   events, history, policy, aux>>

\* extract_features_phase: one future completes with features
\* the feature loop as it would be if it were left as soon as one result
\* is stored, the other tasks still running
FeatOk_no_drain(f) ==
    /\ pc = "featwait"
    /\ f \in pending
    /\ fs[f] > 0
    /\ IF f \in DOMAIN db.songs
       THEN /\ db' = add_song(db, db.songs[f], extract_features(f, fs, n_mfcc))
            /\ featuresCount' = featuresCount + 1
       ELSE UNCHANGED <<db, featuresCount>>
    /\ pending' = pending \ {f}
    /\ pc' = "clean"
    /\ UNCHANGED <<fs, n_mfcc, indexFile, memIndex, allFiles, filesToProcess,
                   metaPos, metadataCount, submitted, deletedCount, maintPath,
                   events, history, policy, aux>>

FeatOk(f) ==
    /\ pc = "featwait"
    /\ f \in pending
    /\ fs[f] > 0
    /\ IF f \in DOMAIN db.songs
       THEN /\ db' = add_song(db, db.songs[f], extract_features(f, fs, n_mfcc))
            /\ featuresCount' = featuresCount + 1
       ELSE UNCHANGED <<db, featuresCount>>
    /\ pending' = pending \ {f}
    /\ pc' = IF pending' = {} THEN "clean" ELSE "featwait"
    /\ UNCHANGED <<fs, n_mfcc, indexFile, memIndex, allFiles, filesToProcess,
                   metaPos, metadataCount, submitted, deletedCount, maintPath,
                   events, history, policy, aux>>

\* extract_features_phase: one future returns no features, raises or times out
FeatFail(f) ==
    /\ pc = "featwait"
    /\ f \in pending
    /\ pending' = pending \ {f}
    /\ pc' = IF pending' = {} THEN "clean" ELSE "featwait"
    /\ expect' = NoExpect
    /\ UNCHANGED <<fs, n_mfcc, db, indexFile, memIndex, allFiles, filesToProcess,
                   metaPos, metadataCount, submitted, featuresCount, deletedCount,
                   maintPath, events, snap, killedAt, resume, policy, aux>>

\* index_library: clean_deleted_files(all_files)
CleanStep ==
    /\ pc = "clean"
    /\ LET r == clean_deleted_files(db, allFiles)
       IN /\ db' = r.db
          /\ deletedCount' = r.deleted_count
    /\ pc' = IF featuresCount > 0 \/ metadataCount > 0 THEN "maint" ELSE "done"
    /\ UNCHANGED <<fs, n_mfcc, indexFile, memIndex, allFiles, filesToProcess,
                   metaPos, metadataCount, pending, submitted, featuresCount,
                   maintPath, events, history, policy, aux>>

\* index_library: update_similarity_index_incremental(features_count), up to save()
MaintStep ==
    /\ pc = "maint"
    /\ LET r == update_similarity_index_incremental(db, indexFile, memIndex, featuresCount)
       IN /\ memIndex' = r.mem
          /\ maintPath' = r.path
          /\ pc' = CASE r.then = "save" -> "save"
                     [] r.then = "return" -> "done"
                     [] OTHER -> "failed"
    /\ UNCHANGED <<fs, n_mfcc, db, indexFile, allFiles, filesToProcess, metaPos,
                   metadataCount, pending, submitted, featuresCount, deletedCount,
                   events, history, policy, aux>>

\* SimilarityIndex.save(): faiss.write_index
SaveStep ==
    /\ pc = "save"
    /\ indexFile' = memIndex
    /\ pc' = "done"
    /\ UNCHANGED <<fs, n_mfcc, db, memIndex, runVars, events, history, policy, aux>>

\* the variables of a run, as a new process starts with them
ResetRun ==
    /\ allFiles' = <<>>
    /\ filesToProcess' = <<>>
    /\ metaPos' = 0
    /\ metadataCount' = 0
    /\ pending' = {}
    /\ submitted' = {}
    /\ featuresCount' = 0
    /\ deletedCount' = 0
    /\ maintPath' = "none"

\* where a kill hits the run: "meta" for the metadata phase, also when it
\* has just handled its last file and the feature phase has not started
KillPoint ==
    IF pc = "feat" /\ metadataCount > 0 THEN "meta"
    ELSE IF pc = "featwait" THEN "feat"
    ELSE IF pc = "save" THEN "maint"
    ELSE pc

\* the process is killed; a kill inside write_index leaves a truncated file
Kill ==
    /\ Running
    /\ pc' = "idle"
    /\ memIndex' = NoIndex
    /\ \/ indexFile' = indexFile
       \/ pc = "save" /\ indexFile' = CorruptIndex
    /\ killedAt' = IF KillPoint = "meta" /\ killedAt # "later" THEN "meta" ELSE "later"
    /\ resume' = IF KillPoint = "meta" /\ killedAt # "later"
                 THEN SubSeq(filesToProcess, metaPos + 1, Len(filesToProcess))
                 ELSE NoResume
    /\ snap' = NoSnap
    /\ ResetRun
    /\ UNCHANGED <<fs, n_mfcc, db, events, expect, policy, aux>>

\* index_library has returned or raised, and the process ends
Exit ==
    /\ pc \in {"done", "failed"}
    /\ pc' = "idle"
    /\ memIndex' = NoIndex
    /\ ResetRun
    /\ snap' = IF pc = "done" /\ allFiles = scan_files(fs)
               THEN [state |-> "ok", db |-> db, indexFile |-> indexFile]
               ELSE NoSnap
    /\ expect' = NoExpect
    /\ killedAt' = "none"
    /\ resume' = NoResume
    /\ UNCHANGED <<fs, n_mfcc, db, indexFile, events, policy, aux>>

Next ==
    \/ \E f \in Files, m \in 1..MaxMtime : WriteFile(f, m)
    \/ \E f \in Files : RemoveFile(f)
    \/ \E n \in NMfccChoices : ChangeConfig(n)
    \/ StartRun
    \/ MetaStep
    \/ FeatStart
    \/ \E f \in Files : FeatOk(f)
    \/ \E f \in Files : FeatFail(f)
    \/ CleanStep
    \/ MaintStep
    \/ SaveStep
    \/ Kill
    \/ Exit

Spec == Init /\ [][Next]_vars

\* ------------------------------------------------------------------ the maintenance decision alone

\* update_similarity_index_incremental decides for an index file that exists
\* or not, an index of `current` vectors and `changed` newly featured tracks
PolicyDecide(index_exists, current, changed) ==
    /\ policy.state = "none"
    /\ policy' = [state |-> "decided", exists |-> index_exists, current |-> current,
                  changed |-> changed,
                  path |-> maintenance_branch(index_exists, current, changed)]
    /\ UNCHANGED <<fs, n_mfcc, db, indexFile, memIndex, pc, runVars, events, history, aux>>

NextPolicy ==
    \E e \in BOOLEAN, c \in 0..MaxCurrent, n \in 0..MaxChanged : PolicyDecide(e, c, n)

SpecPolicy == Init /\ [][NextPolicy]_vars

\* ------------------------------------------------------------------ the feature phase in detail

RECURSIVE paths_by_id(_, _)
\* the file_path of the rows with the given ids, in that order
paths_by_id(d, ids) ==
    IF ids = <<>> THEN <<>>
    ELSE <<CHOOSE f \in DOMAIN d.songs : d.songs[f].id = Head(ids)>>
         \o paths_by_id(d, Tail(ids))

\* file_paths as it would be if the outer join gave every song twice
feature_file_paths_twice(d) ==
    LET l == paths_by_id(d, IdsAscending({d.songs[f].id :
                                            f \in get_songs_without_features(d)}))
    IN l \o l

\* file_paths as it would be if only the files selected by this run's change
\* detection were submitted
feature_file_paths_selected(d) ==
    SelectSeq(paths_by_id(d, IdsAscending({d.songs[f].id :
                                             f \in get_songs_without_features(d)})),
              LAMBDA f : f \in Range(filesToProcess))

\* file_paths = [song.file_path for song in get_songs_without_features()]
feature_file_paths(d) ==
    paths_by_id(d, IdsAscending({d.songs[f].id : f \in get_songs_without_features(d)}))

\* the futures as_completed has not yielded
Unfinished(fut) == {i \in DOMAIN fut : fut[i] \in {"running", "hung"}}

\* where extract_features_phase stands after a future was handled: the loop
\* goes on while a future is unfinished; after it, commit() raises on a
\* session whose transaction failed and was not rolled back
AfterFuture(fut, sess) ==
    IF Unfinished(fut) # {} THEN "featwait"
    ELSE IF sess = "active" THEN "clean" ELSE "failed"

\* extract_features_phase: get_songs_without_features and the submits
PoolSubmit ==
    /\ pc = "feat"
    /\ file_paths' = feature_file_paths(db)
    /\ futures' = [i \in DOMAIN file_paths' |-> "running"]
    /\ pending' = Range(file_paths')
    /\ submitted' = Range(file_paths')
    /\ pc' = IF file_paths' = <<>> THEN "clean" ELSE "featwait"
    /\ UNCHANGED <<fs, n_mfcc, db, indexFile, memIndex, allFiles, filesToProcess,
                   metaPos, metadataCount, featuresCount, deletedCount, maintPath,
                   events, history, policy, session, prevFailed, simVars, genVars, jobVars, raceVars, phaseVars>>

\* a future completes with features and add_song stores them
TaskStored(i) ==
    /\ pc = "featwait"
    /\ i \in DOMAIN futures
    /\ futures[i] = "running"
    /\ session = "active"
    /\ LET f == file_paths[i]
       IN /\ fs[f] > 0
          /\ f \in DOMAIN db.songs
          /\ db' = add_song(db, db.songs[f], extract_features(f, fs, n_mfcc))
          /\ pending' = pending \ {f}
    /\ featuresCount' = featuresCount + 1
    /\ futures' = [futures EXCEPT ![i] = "stored"]
    /\ pc' = AfterFuture(futures', session)
    /\ UNCHANGED <<fs, n_mfcc, indexFile, memIndex, allFiles, filesToProcess,
                   metaPos, metadataCount, submitted, deletedCount, maintPath,
                   events, history, policy, file_paths, session, prevFailed, simVars, genVars, jobVars, raceVars, phaseVars>>

\* a future completes with features and the write of add_song raises: the
\* handler logs it and nothing rolls the session back
TaskWriteRaises(i) ==
    /\ pc = "featwait"
    /\ i \in DOMAIN futures
    /\ futures[i] = "running"
    /\ session = "active"
    /\ fs[file_paths[i]] > 0
    /\ session' = "failed"
    /\ pending' = pending \ {file_paths[i]}
    /\ futures' = [futures EXCEPT ![i] = "write_raised"]
    /\ pc' = AfterFuture(futures', session')
    /\ UNCHANGED <<fs, n_mfcc, db, indexFile, memIndex, allFiles, filesToProcess,
                   metaPos, metadataCount, submitted, featuresCount, deletedCount,
                   maintPath, events, history, policy, file_paths, prevFailed, simVars, genVars, jobVars, raceVars, phaseVars>>

\* a future completes with features after the session has failed: the
\* select of get_song_by_path raises and the handler logs it
TaskLost(i) ==
    /\ pc = "featwait"
    /\ i \in DOMAIN futures
    /\ futures[i] = "running"
    /\ session = "failed"
    /\ fs[file_paths[i]] > 0
    /\ pending' = pending \ {file_paths[i]}
    /\ futures' = [futures EXCEPT ![i] = "lost"]
    /\ pc' = AfterFuture(futures', session)
    /\ UNCHANGED <<fs, n_mfcc, db, indexFile, memIndex, allFiles, filesToProcess,
                   metaPos, metadataCount, submitted, featuresCount, deletedCount,
                   maintPath, events, history, policy, file_paths, session,
                   prevFailed, simVars, genVars, jobVars, raceVars, phaseVars>>

\* a future completes without features (extract_features returned None) or
\* with an exception of the task
TaskFails(i) ==
    /\ pc = "featwait"
    /\ i \in DOMAIN futures
    /\ futures[i] = "running"
    /\ pending' = pending \ {file_paths[i]}
    /\ futures' = [futures EXCEPT ![i] = "failed"]
    /\ pc' = AfterFuture(futures', session)
    /\ UNCHANGED <<fs, n_mfcc, db, indexFile, memIndex, allFiles, filesToProcess,
                   metaPos, metadataCount, submitted, featuresCount, deletedCount,
                   maintPath, events, history, policy, file_paths, session,
                   prevFailed, simVars, genVars, jobVars, raceVars, phaseVars>>

\* a task runs past processing_timeout and never returns: as_completed does
\* not yield its future, so future.result(timeout=...) is not reached for it
TaskHangs(i) ==
    /\ pc = "featwait"
    /\ i \in DOMAIN futures
    /\ futures[i] = "running"
    /\ futures' = [futures EXCEPT ![i] = "hung"]
    /\ UNCHANGED <<fs, n_mfcc, db, indexFile, memIndex, pc, runVars, events,
                   history, policy, file_paths, session, prevFailed, simVars, genVars, jobVars, raceVars, phaseVars>>

\* index_library has returned or raised and the process ends; the next
\* process opens a new session
PoolExit ==
    /\ pc \in {"done", "failed"}
    /\ pc' = "idle"
    /\ memIndex' = NoIndex
    /\ ResetRun
    /\ session' = "active"
    /\ file_paths' = <<>>
    /\ futures' = <<>>
    /\ prevFailed' = IF pc = "done" \/ session = "failed" \/ maintPath # "none"
                     THEN {file_paths[i] : i \in {j \in DOMAIN futures :
                                                     futures[j] = "failed"}}
                     ELSE prevFailed
    /\ snap' = NoSnap
    /\ expect' = NoExpect
    /\ killedAt' = "none"
    /\ resume' = NoResume
    /\ UNCHANGED <<fs, n_mfcc, db, indexFile, events, policy, simVars, genVars, jobVars, raceVars, phaseVars>>

\* the steps of a run that has started, and of the tasks that return
PoolProgram ==
    \/ MetaStep
    \/ PoolSubmit
    \/ \E i \in 1..NumFiles : TaskStored(i) \/ TaskWriteRaises(i) \/ TaskLost(i)
                              \/ TaskFails(i)
    \/ CleanStep
    \/ MaintStep
    \/ SaveStep

NextPool ==
    \/ \E f \in Files, m \in 1..MaxMtime : WriteFile(f, m)
    \/ \E f \in Files : RemoveFile(f)
    \/ StartRun
    \/ MetaStep
    \/ PoolSubmit
    \/ \E i \in 1..NumFiles : TaskStored(i)
    \/ \E i \in 1..NumFiles : TaskWriteRaises(i)
    \/ \E i \in 1..NumFiles : TaskLost(i)
    \/ \E i \in 1..NumFiles : TaskFails(i)
    \/ \E i \in 1..NumFiles : TaskHangs(i)
    \/ CleanStep
    \/ MaintStep
    \/ SaveStep
    \/ PoolExit

SpecPool == Init /\ [][NextPool]_vars

\* the thread of index_library keeps running, and the future of a task that
\* returns is handled
SpecPoolFair == SpecPool /\ WF_vars(PoolProgram)

\* ------------------------------------------------------------------ a SimilarityIndex object, call by call

\* the dimensions, song ids and k of the calls
Dims == {1, 2}
SongIds == {1, 2}
Ks == {1, 3}

\* the feature vector of a song in dimension d: every coordinate is id - 1
SongVector(id, d) == [i \in 1..d |-> id - 1]

\* the float32 vectors of dimension d that the calls use
VectorsOfDim(d) == {SongVector(id, d) : id \in SongIds}

\* the sequences over S of length 0..n
SeqsUpTo(S, n) == UNION {[1..m -> S] : m \in 0..n}

\* the 2D array a caller passes with song_ids: shape (n, d), row k the vector
\* of song_ids[k] (of the first song where song_ids is the shorter)
ArrayFor(d, n, song_ids) ==
    [d |-> d,
     rows |-> [k \in 1..n |-> SongVector(IF k <= Len(song_ids) THEN song_ids[k] ELSE 1, d)]]

\* SimilarityIndex(config): _index = None, _dimension = None
FreshIndex == [index |-> NoIndex, dimension |-> 0]

\* add_with_ids: the vectors and their ids, in the order given
WithIds(rows, song_ids) == [k \in 1..Len(rows) |-> [id |-> song_ids[k], vec |-> rows[k]]]

\* build_index as it would be if it added to the index it holds
sim_build_index_appends(self, vectors, song_ids) ==
    IF Len(vectors.rows) = 0 THEN [self |-> self, raised |-> TRUE]
    ELSE IF Len(vectors.rows) # Len(song_ids) THEN [self |-> self, raised |-> TRUE]
    ELSE [self |-> [index |-> [state |-> "ok", d |-> vectors.d,
                               items |-> (IF self.index = NoIndex THEN <<>>
                                          ELSE self.index.items)
                                         \o WithIds(vectors.rows, song_ids)],
                    dimension |-> vectors.d],
          raised |-> FALSE]

\* build_index as it would be if it set _dimension before its checks
sim_build_index_late_check(self, vectors, song_ids) ==
    IF Len(vectors.rows) = 0 \/ Len(vectors.rows) # Len(song_ids)
    THEN [self |-> [self EXCEPT !.dimension = vectors.d], raised |-> TRUE]
    ELSE [self |-> [index |-> [state |-> "ok", d |-> vectors.d,
                               items |-> WithIds(vectors.rows, song_ids)],
                    dimension |-> vectors.d],
          raised |-> FALSE]

\* SimilarityIndex.build_index(vectors, song_ids)
sim_build_index(self, vectors, song_ids) ==
    IF Len(vectors.rows) = 0 THEN [self |-> self, raised |-> TRUE]
    ELSE IF Len(vectors.rows) # Len(song_ids) THEN [self |-> self, raised |-> TRUE]
    ELSE [self |-> [index |-> [state |-> "ok", d |-> vectors.d,
                               items |-> WithIds(vectors.rows, song_ids)],
                    dimension |-> vectors.d],
          raised |-> FALSE]

\* add_vectors as it would be without the check of the dimension
sim_add_vectors_unchecked(self, vectors, song_ids) ==
    IF self.index = NoIndex THEN [self |-> self, raised |-> TRUE]
    ELSE IF Len(vectors.rows) # Len(song_ids) THEN [self |-> self, raised |-> TRUE]
    ELSE [self |-> [self EXCEPT !.index.items = @ \o WithIds(vectors.rows, song_ids)],
          raised |-> FALSE]

\* SimilarityIndex.add_vectors(vectors, song_ids)
sim_add_vectors(self, vectors, song_ids) ==
    IF self.index = NoIndex THEN [self |-> self, raised |-> TRUE]
    ELSE IF Len(vectors.rows) # Len(song_ids) THEN [self |-> self, raised |-> TRUE]
    ELSE IF vectors.d # self.dimension THEN [self |-> self, raised |-> TRUE]
    ELSE [self |-> [self EXCEPT !.index.items = @ \o WithIds(vectors.rows, song_ids)],
          raised |-> FALSE]

\* SimilarityIndex.remove_vectors(song_ids): remove_ids drops every vector
\* stored under one of the ids
sim_remove_vectors(self, song_ids) ==
    IF self.index = NoIndex THEN [self |-> self, raised |-> TRUE]
    ELSE [self |-> [self EXCEPT !.index.items =
                       SelectSeq(@, LAMBDA it : it.id \notin Range(song_ids))],
          raised |-> FALSE]

RECURSIVE SquaredL2(_, _)
\* the metric of IndexFlatL2
SquaredL2(u, v) ==
    IF u = <<>> THEN 0
    ELSE (Head(u) - Head(v)) * (Head(u) - Head(v)) + SquaredL2(Tail(u), Tail(v))

RECURSIVE Nearest(_, _, _)
\* the k nearest of the stored vectors, nearest first, the earlier stored
\* first among equals; a missing neighbour has id -1
Nearest(items, query, k) ==
    IF k = 0 THEN <<>>
    ELSE IF items = <<>> THEN <<[distance |-> -1, id |-> -1]>> \o Nearest(items, query, k - 1)
    ELSE LET best == CHOOSE i \in DOMAIN items :
                        \A j \in DOMAIN items :
                            \/ SquaredL2(items[i].vec, query) < SquaredL2(items[j].vec, query)
                            \/ /\ SquaredL2(items[i].vec, query) = SquaredL2(items[j].vec, query)
                               /\ i <= j
             rest == [j \in 1..(Len(items) - 1) |->
                         IF j < best THEN items[j] ELSE items[j + 1]]
         IN <<[distance |-> SquaredL2(items[best].vec, query), id |-> items[best].id]>>
            \o Nearest(rest, query, k - 1)

\* search as it would be without the check of the query's dimension
sim_search_unchecked(self, query_vector, k) ==
    IF self.index = NoIndex THEN [self |-> self, raised |-> TRUE, result |-> <<>>]
    ELSE [self |-> self, raised |-> FALSE, result |-> <<>>]

\* SimilarityIndex.search(query_vector, k): [self, raised, result]; search
\* assigns nothing to the object
sim_search(self, query_vector, k) ==
    IF self.index = NoIndex THEN [self |-> self, raised |-> TRUE, result |-> <<>>]
    ELSE IF Len(query_vector) # self.dimension
    THEN [self |-> self, raised |-> TRUE, result |-> <<>>]
    ELSE [self |-> self, raised |-> FALSE,
          result |-> Nearest(self.index.items, query_vector, k)]

RECURSIVE Flatten(_)
Flatten(rows) == IF rows = <<>> THEN <<>> ELSE Head(rows) \o Flatten(Tail(rows))

\* faiss.write_index of an IndexIDMap: d, ntotal, the vectors of the flat
\* index, the id map
write_index(ix) ==
    <<ix.d, Len(ix.items)>>
    \o Flatten([k \in DOMAIN ix.items |-> ix.items[k].vec])
    \o [k \in DOMAIN ix.items |-> ix.items[k].id]

\* read_index as it would be if the file held the flat index without the
\* id map: the vectors are numbered from 0
read_index_sequential_ids(file) ==
    IF file.state # "ok" THEN Error
    ELSE LET b == file.bytes IN
         IF Len(b) < 2 THEN Error
         ELSE IF Len(b) # 2 + b[1] * b[2] + b[2] THEN Error
         ELSE [state |-> "ok", d |-> b[1],
               items |-> [k \in 1..b[2] |->
                             [id |-> k - 1,
                              vec |-> SubSeq(b, 3 + (k - 1) * b[1], 2 + k * b[1])]]]

\* faiss.read_index: the index the file holds; raises (Error) when the file
\* is absent or does not hold a whole index
read_index(file) ==
    IF file.state # "ok" THEN Error
    ELSE LET b == file.bytes IN
         IF Len(b) < 2 THEN Error
         ELSE IF Len(b) # 2 + b[1] * b[2] + b[2] THEN Error
         ELSE [state |-> "ok", d |-> b[1],
               items |-> [k \in 1..b[2] |->
                             [id |-> b[2 + b[1] * b[2] + k],
                              vec |-> SubSeq(b, 3 + (k - 1) * b[1], 2 + k * b[1])]]]

\* SimilarityIndex.save(): [file, raised]
sim_save(self, file) ==
    IF self.index = NoIndex THEN [file |-> file, raised |-> TRUE]
    ELSE [file |-> [state |-> "ok", bytes |-> write_index(self.index)], raised |-> FALSE]

\* load as it would be if it dropped the index it holds before reading
sim_load_clears_first(self, file) ==
    LET read == read_index(file)
    IN IF read = Error THEN [self |-> FreshIndex, raised |-> TRUE]
       ELSE [self |-> [index |-> read, dimension |-> read.d], raised |-> FALSE]

\* SimilarityIndex.load(): the assignment to _index happens only when
\* read_index has returned
sim_load(self, file) ==
    LET read == read_index(file)
    IN IF read = Error THEN [self |-> self, raised |-> TRUE]
       ELSE [self |-> [index |-> read, dimension |-> read.d], raised |-> FALSE]

\* what every call on the object leaves alone
SimFrame ==
    UNCHANGED <<fs, n_mfcc, db, indexFile, memIndex, pc, runVars, events, history,
                policy, poolVars, genVars, jobVars, raceVars, phaseVars>>

\* how a call's arguments stand to the object: the check that stops the
\* call, if one does
BuildCase(self, vectors, song_ids) ==
    IF Len(vectors.rows) = 0 THEN "empty"
    ELSE IF Len(vectors.rows) # Len(song_ids) THEN "lengths"
    ELSE IF IndexIds(self.index) \ Range(song_ids) # {} THEN "replaced"
    ELSE "built"

AddCase(self, vectors, song_ids) ==
    IF self.index = NoIndex THEN "no_index"
    ELSE IF Len(vectors.rows) # Len(song_ids) THEN "lengths"
    ELSE IF vectors.d # self.dimension THEN "dimension"
    ELSE "added"

SearchCase(self, query_vector) ==
    IF self.index = NoIndex THEN "no_index"
    ELSE IF Len(query_vector) # self.dimension THEN "dimension"
    ELSE "found"

BuildIndexCall(vectors, song_ids) ==
    /\ LET r == sim_build_index(sim, vectors, song_ids)
       IN /\ sim' = r.self
          /\ simCall' = [op |-> "build_index", raised |-> r.raised,
                         case |-> BuildCase(sim, vectors, song_ids)]
    /\ UNCHANGED simFile
    /\ SimFrame

AddVectorsCall(vectors, song_ids) ==
    /\ size(sim.index) + Len(vectors.rows) <= MaxIndexSize
    /\ LET r == sim_add_vectors(sim, vectors, song_ids)
       IN /\ sim' = r.self
          /\ simCall' = [op |-> "add_vectors", raised |-> r.raised,
                         case |-> AddCase(sim, vectors, song_ids)]
    /\ UNCHANGED simFile
    /\ SimFrame

RemoveVectorsCall(song_ids) ==
    /\ LET r == sim_remove_vectors(sim, song_ids)
       IN /\ sim' = r.self
          /\ simCall' = [op |-> "remove_vectors", raised |-> r.raised, case |-> ""]
    /\ UNCHANGED simFile
    /\ SimFrame

SearchCall(query_vector, k) ==
    /\ LET r == sim_search(sim, query_vector, k)
       IN /\ sim' = r.self
          /\ simCall' = [op |-> "search", raised |-> r.raised,
                         case |-> SearchCase(sim, query_vector)]
    /\ UNCHANGED simFile
    /\ SimFrame

SaveCall ==
    /\ LET r == sim_save(sim, simFile)
       IN /\ simFile' = r.file
          /\ simCall' = [op |-> "save", raised |-> r.raised, case |-> ""]
    /\ UNCHANGED sim
    /\ SimFrame

\* the object that holds the index loads the file
LoadCall ==
    /\ LET r == sim_load(sim, simFile)
       IN /\ sim' = r.self
          /\ simCall' = [op |-> "load", raised |-> r.raised, case |-> ""]
    /\ UNCHANGED simFile
    /\ SimFrame

\* a new process: SimilarityIndex(config).load()
FreshLoadCall ==
    /\ LET r == sim_load(FreshIndex, simFile)
       IN /\ sim' = r.self
          /\ simCall' = [op |-> "fresh_load", raised |-> r.raised, case |-> ""]
    /\ UNCHANGED simFile
    /\ SimFrame

\* the index file is cut short after its header (a write that did not finish)
TruncateFile ==
    /\ simFile.state = "ok"
    /\ Len(simFile.bytes) > 2
    /\ simFile' = [simFile EXCEPT !.bytes = SubSeq(@, 1, 2)]
    /\ simCall' = [op |-> "truncate", raised |-> FALSE, case |-> ""]
    /\ UNCHANGED sim
    /\ SimFrame

\* the index file is deleted
DeleteIndexFile ==
    /\ simFile.state = "ok"
    /\ simFile' = AbsentIndex
    /\ simCall' = [op |-> "delete", raised |-> FALSE, case |-> ""]
    /\ UNCHANGED sim
    /\ SimFrame

NextIndex ==
    \/ \E d \in Dims, n \in 0..MaxVectors, ids \in SeqsUpTo(SongIds, MaxVectors) :
          BuildIndexCall(ArrayFor(d, n, ids), ids)
    \/ \E d \in Dims, n \in 0..MaxVectors, ids \in SeqsUpTo(SongIds, MaxVectors) :
          AddVectorsCall(ArrayFor(d, n, ids), ids)
    \/ \E ids \in SeqsUpTo(SongIds, 1) : RemoveVectorsCall(ids)
    \/ \E d \in Dims, k \in Ks : \E q \in VectorsOfDim(d) : SearchCall(q, k)
    \/ SaveCall
    \/ LoadCall
    \/ FreshLoadCall
    \/ TruncateFile
    \/ DeleteIndexFile

\* the object alone: the library is empty and no run is started
InitIndex == Init /\ fs = [f \in Files |-> 0]

SpecIndex == InitIndex /\ [][NextIndex]_vars

\* ------------------------------------------------------------------ claims

\* the tracks of a store that have a feature vector, by id
FeaturedIds(d) == {d.songs[f].id : f \in DOMAIN d.songs} \cap DOMAIN d.features

\* C1 (as amended): a run that starts from the state a completed run left,
\* with no change of the library or the config in between, selects no file
\* in change detection and runs no metadata extraction; it submits to feature
\* extraction exactly the tracks the first run left without a feature vector;
\* and when there is no such track it leaves the store and the index file
\* equal to what they were after the first run.
C1_RerunIdempotent ==
    (snap # NoSnap /\ pc # "idle") =>
        /\ filesToProcess = <<>>
        /\ metadataCount = 0
        /\ pc # "feat" => submitted = get_songs_without_features(snap.db)
        /\ get_songs_without_features(snap.db) = {} =>
              /\ submitted = {}
              /\ db = snap.db
              /\ indexFile = snap.indexFile

\* C1 witness: a second run has completed on a library with indexed tracks
C1_Witness ==
    /\ snap # NoSnap
    /\ pc = "done"
    /\ get_songs_without_features(snap.db) = {}
    /\ DOMAIN db.features # {}
    /\ indexFile.state = "ok"

\* C1 as stated: the second run selects and submits nothing and leaves the
\* store and the index file as they were.
C1_Original ==
    (snap # NoSnap /\ pc # "idle") =>
        /\ filesToProcess = <<>>
        /\ submitted = {}
        /\ db = snap.db
        /\ indexFile = snap.indexFile

C3_ConvergesAfterKill ==
    (killedAt # "none" /\ expect # NoExpect /\ pc = "done") =>
        /\ db = expect.db
        /\ IndexIds(indexFile) = expect.ids

\* C4 as stated: when a run completes on an unchanged library, every file it
\* selected in change detection that has a feature vector was submitted to
\* feature extraction in this run and its vector is the vector of the file
\* as it is on disk.
C4_ModifiedFileReextracted ==
    (pc = "done" /\ allFiles = scan_files(fs)) =>
        \A f \in Range(filesToProcess) :
            (f \in DOMAIN db.songs /\ db.songs[f].id \in DOMAIN db.features) =>
                /\ f \in submitted
                /\ db.features[db.songs[f].id].ver = fs[f]

\* C5: change detection returns, in scan order and once each, exactly the
\* scanned files that have no row or whose mtime on disk is strictly greater
\* than the stored last_modified, and changes neither the store nor the
\* index file.
C5_ChangeDetection ==
    [][(pc = "idle" /\ pc' # "idle") =>
          LET expected == {f \in Range(allFiles') :
                              \/ f \notin DOMAIN db.songs
                              \/ fs[f] > db.songs[f].last_modified}
          IN /\ Range(filesToProcess') = expected
             /\ Len(filesToProcess') = Cardinality(expected)
             /\ \A i, j \in DOMAIN filesToProcess' :
                   i < j => filesToProcess'[i] < filesToProcess'[j]
             /\ db' = db
             /\ indexFile' = indexFile]_vars

\* C5 witness: change detection has just left out a stored file whose mtime
\* on disk is lower than the stored one and a stored file whose mtime on
\* disk equals the stored one
C5_Witness ==
    /\ pc \in {"meta", "feat"}
    /\ metaPos = 0
    /\ allFiles = scan_files(fs)
    /\ \E f \in Range(allFiles) :
          /\ f \in DOMAIN db.songs
          /\ fs[f] < db.songs[f].last_modified
          /\ f \notin Range(filesToProcess)
    /\ \E g \in Range(allFiles) :
          /\ g \in DOMAIN db.songs
          /\ fs[g] = db.songs[g].last_modified
          /\ g \notin Range(filesToProcess)

\* C6: clean_deleted_files deletes the row and the feature vector of every
\* stored path that is not in the scan of this run, leaves every stored path
\* of the scan as it was, and returns the number of deleted paths.
C6_CleanDeletedFiles ==
    [][(pc = "clean" /\ pc' \in {"maint", "done"}) =>
          LET scanned == Range(allFiles)
              gone == {f \in DOMAIN db.songs : f \notin scanned}
          IN /\ DOMAIN db'.songs = DOMAIN db.songs \ gone
             /\ \A f \in gone : db.songs[f].id \notin DOMAIN db'.features
             /\ \A f \in DOMAIN db.songs \ gone :
                   /\ db'.songs[f] = db.songs[f]
                   /\ (db.songs[f].id \in DOMAIN db.features) =
                      (db.songs[f].id \in DOMAIN db'.features)
                   /\ db.songs[f].id \in DOMAIN db.features =>
                         db'.features[db.songs[f].id] = db.features[db.songs[f].id]
             /\ deletedCount' = Cardinality(gone)]_vars

\* C6 witness: the cleanup has deleted a path and kept another one that has
\* a feature vector
C6_Witness ==
    /\ pc \in {"maint", "done"}
    /\ deletedCount > 0
    /\ \E f \in DOMAIN db.songs : db.songs[f].id \in DOMAIN db.features

\* C7 as stated: at the end of every completed run the index file holds at
\* most as many vectors as there are tracks with a feature vector.
C7_IndexSizeBound ==
    pc = "done" => size(indexFile) <= Cardinality(FeaturedIds(db))

\* C8: the branch is the full build when no index file exists, the rebuild
\* when changed / max(current, 1) > 0.10 and the incremental update otherwise,
\* also at a ratio of exactly 0.10; current=100 takes the incremental branch
\* with changed=5 and the rebuild with changed=20.
C8_MaintenancePolicy ==
    policy.state = "decided" =>
        LET m == IF policy.current > 1 THEN policy.current ELSE 1
        IN /\ ~policy.exists => policy.path = "build"
           /\ (policy.exists /\ 10 * policy.changed > m) => policy.path = "rebuild"
           /\ (policy.exists /\ 10 * policy.changed <= m) => policy.path = "incremental"
           /\ (policy.exists /\ policy.current = 100 /\ policy.changed = 5) =>
                 policy.path = "incremental"
           /\ (policy.exists /\ policy.current = 100 /\ policy.changed = 20) =>
                 policy.path = "rebuild"

\* C8 witness: an index of 100 vectors and 10 new tracks, a ratio of exactly
\* 0.10, has taken the incremental branch
C8_Witness ==
    /\ policy.state = "decided"
    /\ policy.exists
    /\ policy.current = 100
    /\ policy.changed = 10
    /\ policy.path = "incremental"

\* C9 as stated: when the load or the add_vectors of the incremental path
\* fails, the error does not leave update_similarity_index_incremental, and
\* the run ends with an index file that holds exactly the tracks that have
\* a feature vector.
C9_FallbackNeverPropagates ==
    maintPath \in {"fallback_load", "fallback_add"} =>
        /\ pc # "failed"
        /\ pc = "done" => /\ IndexIds(indexFile) = FeaturedIds(db)
                          /\ size(indexFile) = Cardinality(FeaturedIds(db))

\* C10 as stated: no failure on one file stops the metadata phase: a run
\* never ends with an error before it reaches index maintenance.
C10_MetadataFailureNonFatal ==
    pc = "failed" => maintPath # "none"

\* C11 as stated: the failure of one task never aborts the feature phase,
\* the successful result of every other task is written to the store, and
\* the phase returns the number of results it stored.
C11_TaskFailureIsolated ==
    /\ ~(pc = "failed" /\ session = "failed")
    /\ \A i \in DOMAIN futures : futures[i] # "lost"
    /\ pc = "clean" =>
          featuresCount = Cardinality({i \in DOMAIN futures : futures[i] = "stored"})

\* C12 as stated: the feature phase always terminates, also when a task
\* never finishes: the task is treated as failed after processing_timeout.
C12_PhaseTerminates == (pc = "featwait") ~> (pc # "featwait")

C14_SubmittedOnce ==
    /\ \A i, j \in DOMAIN file_paths : i # j => file_paths[i] # file_paths[j]
    /\ DOMAIN futures = DOMAIN file_paths
    /\ pc = "featwait" => Len(file_paths) = Cardinality(submitted)

\* C14 witness: two files are in the pool
C14_Witness ==
    /\ pc = "featwait"
    /\ Len(file_paths) >= 2
    /\ \A i \in DOMAIN futures : futures[i] = "running"

\* C15: on whatever object, add_vectors raises and leaves the object as it
\* was when the dimension of the vectors differs from the dimension of the
\* index, when the number of vectors differs from the number of ids, and
\* when no index has been built or loaded.
C15_AddVectorsRejects ==
    \A d \in Dims, n \in 0..MaxVectors, ids \in SeqsUpTo(SongIds, MaxVectors) :
        LET r == sim_add_vectors(sim, ArrayFor(d, n, ids), ids)
        IN (sim.index = NoIndex \/ n # Len(ids) \/ d # sim.dimension) =>
              /\ r.raised
              /\ r.self = sim
              /\ size(r.self.index) = size(sim.index)

\* C15 witness: add_vectors has raised on an index that holds vectors of
\* another dimension
C15_Witness ==
    /\ simCall.op = "add_vectors"
    /\ simCall.case = "dimension"
    /\ simCall.raised
    /\ size(sim.index) > 0

\* C16: build_index raises and leaves the object as it was when vectors is
\* empty and when the number of vectors differs from the number of ids.
C16_BuildIndexRejects ==
    \A d \in Dims, n \in 0..MaxVectors, ids \in SeqsUpTo(SongIds, MaxVectors) :
        LET r == sim_build_index(sim, ArrayFor(d, n, ids), ids)
        IN (n = 0 \/ n # Len(ids)) =>
              /\ r.raised
              /\ r.self = sim

\* C16 witness: build_index has raised for mismatched lengths on an object
\* that holds an index
C16_Witness ==
    /\ simCall.op = "build_index"
    /\ simCall.case = "lengths"
    /\ simCall.raised
    /\ size(sim.index) > 0

\* C17: build_index succeeds for vectors and ids of one positive length, and
\* then, whatever the object held, its size is len(vectors), its dimension
\* the dimension of vectors, and the ids it holds are exactly the ids given.
C17_BuildIndexReplaces ==
    \A d \in Dims, n \in 0..MaxVectors, ids \in SeqsUpTo(SongIds, MaxVectors) :
        LET r == sim_build_index(sim, ArrayFor(d, n, ids), ids)
        IN /\ (n > 0 /\ n = Len(ids)) => ~r.raised
           /\ ~r.raised =>
                 /\ size(r.self.index) = n
                 /\ r.self.dimension = d
                 /\ r.self.index.d = d
                 /\ IndexIds(r.self.index) = Range(ids)
                 /\ r.self.index.items = WithIds(ArrayFor(d, n, ids).rows, ids)

\* C17 witness: build_index has succeeded on an object that held an id that
\* is not among the new ids
C17_Witness ==
    /\ simCall.op = "build_index"
    /\ simCall.case = "replaced"
    /\ ~simCall.raised
    /\ sim.index # NoIndex

\* C18: search raises and leaves the object as it was when no index has
\* been built or loaded and when the dimension of the query differs from the
\* dimension of the index.
C18_SearchRejects ==
    \A d \in Dims, k \in Ks : \A q \in VectorsOfDim(d) :
        LET r == sim_search(sim, q, k)
        IN (sim.index = NoIndex \/ d # sim.dimension) =>
              /\ r.raised
              /\ r.self = sim

\* C18 witness: search has raised for a query of another dimension
C18_Witness ==
    /\ simCall.op = "search"
    /\ simCall.case = "dimension"
    /\ simCall.raised
    /\ size(sim.index) > 0

\* the file holds a whole index
WholeIndexFile(file) ==
    /\ file.state = "ok"
    /\ Len(file.bytes) >= 2
    /\ Len(file.bytes) = 2 + file.bytes[1] * file.bytes[2] + file.bytes[2]

\* C19: load raises when the file is absent or does not hold a whole index,
\* and then the index and the dimension of the object are as before the call.
C19_FailedLoadKeepsState ==
    \A file \in {simFile, AbsentIndex, CorruptIndex} :
        LET r == sim_load(sim, file)
        IN ~WholeIndexFile(file) =>
              /\ r.raised
              /\ r.self = sim

\* C19 witness: an object that holds an index has failed to load a file
\* that was cut short
C19_Witness ==
    /\ simCall.op = "load"
    /\ simCall.raised
    /\ size(sim.index) > 0
    /\ simFile.state = "ok"

\* C20: for every index an object can hold after build_index, add_vectors
\* and remove_vectors, save succeeds and a fresh object that loads the saved
\* file has the same dimension, size and ids and answers every query alike.
C20_SaveLoadRoundTrip ==
    sim.index # NoIndex =>
        LET saved == sim_save(sim, simFile)
            loaded == sim_load(FreshIndex, saved.file)
        IN /\ ~saved.raised
           /\ ~loaded.raised
           /\ loaded.self.dimension = sim.dimension
           /\ size(loaded.self.index) = size(sim.index)
           /\ IndexIds(loaded.self.index) = IndexIds(sim.index)
           /\ \A d \in Dims, k \in Ks : \A q \in VectorsOfDim(d) :
                 /\ sim_search(loaded.self, q, k).raised = sim_search(sim, q, k).raised
                 /\ sim_search(loaded.self, q, k).result = sim_search(sim, q, k).result

\* C20 witness: a fresh object has loaded the file saved from an index of
\* two songs
C20_Witness ==
    /\ simCall.op = "fresh_load"
    /\ ~simCall.raised
    /\ Cardinality(IndexIds(sim.index)) >= 2
    /\ simFile = sim_save(sim, simFile).file

\* ------------------------------------------------------------------ PlaylistGenerator.generate

\* the ids of the Tracks of the store the generator reads
TrackIds == {1, 2, 3}

\* the length and candidate_multiplier arguments of generate
Lengths == {1, 2}
Multipliers == {1, 2}

\* find_similar_songs: extra_buffer
extra_buffer == 50

\* the seed specs a caller passes: two dicts with all fields that differ in
\* the album, a dict whose album is missing or empty, and a seed that is no dict
SeedXYZ == [kind |-> "dict", title |-> "X", artist |-> "Y", album |-> "Z"]
SeedXYW == [kind |-> "dict", title |-> "X", artist |-> "Y", album |-> "W"]
SeedNoAlbum == [kind |-> "dict", title |-> "X", artist |-> "Y", album |-> ""]
SeedNotDict == [kind |-> "str", title |-> "", artist |-> "", album |-> ""]
SeedSpecs == {SeedXYZ, SeedXYW, SeedNoAlbum, SeedNotDict}

\* the lists of seed specs of a call
SeedLists == UNION {[1..m -> SeedSpecs] : m \in 0..2}

\* the rows a store can hold for a Track id: its tags, and whether it has a
\* features row; the feature vector of Track id is SongVector(id, 1) and all
\* Tracks have one bpm
TrackRows ==
    [title : {"X"}, artist : {"Y"}, album : {"Z", "W", "V"}, features : BOOLEAN]

\* the albums the file of a Track id can be tagged with; no seed spec names "V"
AlbumsOf(id) == IF id = 3 THEN {"Z", "V"} ELSE {"Z", "W"}

\* the stores: a row for each id of a set of ids
Stores ==
    UNION {{tracks \in [S -> TrackRows] : \A id \in S : tracks[id].album \in AlbumsOf(id)} :
             S \in SUBSET TrackIds}

\* the SimilarityIndex objects the generator is given: none loaded, an index
\* over some ids of the store's dimension (also an id twice, also ids the
\* store does not hold), and an index of another dimension
IndexOver(ids, d) ==
    [index |-> [state |-> "ok", d |-> d,
                items |-> [k \in DOMAIN ids |-> [id |-> ids[k], vec |-> SongVector(ids[k], d)]]],
     dimension |-> d]

GeneratorIndexes ==
    {FreshIndex, IndexOver(<<1>>, 2)}
    \cup {IndexOver(IdsAscending(S), 1) : S \in SUBSET TrackIds}
    \cup {IndexOver(<<Min(S)>> \o IdsAscending(S), 1) : S \in (SUBSET TrackIds) \ {{}}}

\* MusicDatabase.find_song_exact: scalar_one_or_none() gives the row, None
\* (id 0) when no row matches, and raises MultipleResultsFound when more
\* than one row matches
find_song_exact(tracks, title, artist, album) ==
    LET rows == {id \in DOMAIN tracks : /\ tracks[id].title = title
                                        /\ tracks[id].artist = artist
                                        /\ tracks[id].album = album}
    IN IF rows = {} THEN [raised |-> FALSE, id |-> 0]
       ELSE IF Cardinality(rows) = 1 THEN [raised |-> FALSE, id |-> Min(rows)]
       ELSE [raised |-> TRUE, id |-> 0]

\* MusicDatabase.get_features(song_id) is not None
get_features(tracks, song_id) ==
    song_id \in DOMAIN tracks /\ tracks[song_id].features

\* get_song_with_features as it would be if it did not look at the features
get_song_any(tracks, song_id) == song_id \in DOMAIN tracks

\* MusicDatabase.get_song_with_features(song_id) is not None
get_song_with_features(tracks, song_id) ==
    song_id \in DOMAIN tracks /\ tracks[song_id].features

RECURSIVE find_seed_songs(_, _)
\* PlaylistGenerator.find_seed_songs: [raised, songs]; an exception of
\* find_song_exact leaves the method
find_seed_songs(tracks, seed_data) ==
    IF seed_data = <<>> THEN [raised |-> FALSE, songs |-> <<>>]
    ELSE LET seed == Head(seed_data)
             rest == find_seed_songs(tracks, Tail(seed_data))
             match == find_song_exact(tracks, seed.title, seed.artist, seed.album)
         IN IF seed.kind # "dict" THEN rest
            ELSE IF seed.title = "" \/ seed.artist = "" \/ seed.album = "" THEN rest
            ELSE IF match.raised THEN [raised |-> TRUE, songs |-> <<>>]
            ELSE IF rest.raised THEN rest
            ELSE IF match.id # 0 THEN [rest EXCEPT !.songs = <<match.id>> \o @]
            ELSE rest

RECURSIVE get_seed_vectors_zero_filled(_, _)
\* get_seed_vectors as it would be if a seed without features gave a zero vector
get_seed_vectors_zero_filled(tracks, seed_songs) ==
    IF seed_songs = <<>> THEN <<>>
    ELSE (IF get_features(tracks, Head(seed_songs))
          THEN <<SongVector(Head(seed_songs), 1)>>
          ELSE <<SongVector(1, 1)>>)
         \o get_seed_vectors_zero_filled(tracks, Tail(seed_songs))

RECURSIVE get_seed_vectors(_, _)
\* PlaylistGenerator.get_seed_vectors
get_seed_vectors(tracks, seed_songs) ==
    IF seed_songs = <<>> THEN <<>>
    ELSE (IF get_features(tracks, Head(seed_songs))
          THEN <<SongVector(Head(seed_songs), 1)>>
          ELSE <<>>)
         \o get_seed_vectors(tracks, Tail(seed_songs))

RECURSIVE VectorSum(_)
VectorSum(vectors) ==
    IF Len(vectors) = 1 THEN Head(vectors)
    ELSE LET rest == VectorSum(Tail(vectors))
         IN [i \in DOMAIN rest |-> Head(vectors)[i] + rest[i]]

\* PlaylistGenerator.compute_average_vector for a non-empty list: np.mean
\* over axis 0, kept as the exact quotient sum / n
compute_average_vector(vectors) ==
    [sum |-> VectorSum(vectors), n |-> Len(vectors)]

NoAverage == [sum |-> <<>>, n |-> 0]

\* the index with every coordinate multiplied by n: its neighbours of
\* n * q are the neighbours the index has of q, in the same order
Scaled(self, n) ==
    IF self.index = NoIndex THEN self
    ELSE [self EXCEPT !.index.items =
             [k \in DOMAIN @ |-> [@[k] EXCEPT !.vec = [i \in DOMAIN @ |-> n * @[i]]]]]

\* the ids of a search result
ResultIds(result) == [i \in DOMAIN result |-> result[i].id]

\* the orders of the positions 1..n
Orders(n) == {p \in [1..n -> 1..n] : \A i, j \in 1..n : p[i] = p[j] => i = j}

\* similarity_index.search(query_vector, k) of find_similar_songs: the
\* sets of [raised, indices] it can give.  With query_noise_scale <= 0 the
\* query is the average; with noise the query is any vector of its shape,
\* and the stored ids come back in any order, -1 after them.
search_results(self, avg, k, noisy) ==
    LET exact == sim_search(Scaled(self, avg.n), avg.sum, k)
    IN IF exact.raised THEN {[raised |-> TRUE, indices |-> <<>>]}
       ELSE IF ~noisy THEN {[raised |-> FALSE, indices |-> ResultIds(exact.result)]}
       ELSE LET items == self.index.items
                n == Len(items)
            IN {[raised |-> FALSE,
                 indices |-> [i \in 1..k |-> IF i <= n THEN items[p[i]].id ELSE -1]] :
                   p \in Orders(n)}

RECURSIVE candidate_songs_with_seeds(_, _, _, _, _)
\* the loop of find_similar_songs as it would be without exclude_ids
candidate_songs_with_seeds(indices, exclude_ids, tracks, candidate_count, acc) ==
    IF indices = <<>> THEN acc
    ELSE IF get_song_with_features(tracks, Head(indices))
    THEN IF Len(acc) + 1 >= candidate_count THEN Append(acc, Head(indices))
         ELSE candidate_songs_with_seeds(Tail(indices), exclude_ids, tracks,
                                         candidate_count, Append(acc, Head(indices)))
    ELSE candidate_songs_with_seeds(Tail(indices), exclude_ids, tracks, candidate_count, acc)

RECURSIVE candidate_songs(_, _, _, _, _)
\* the loop of find_similar_songs over the returned ids
candidate_songs(indices, exclude_ids, tracks, candidate_count, acc) ==
    IF indices = <<>> THEN acc
    ELSE IF Head(indices) \notin exclude_ids /\ get_song_with_features(tracks, Head(indices))
    THEN IF Len(acc) + 1 >= candidate_count THEN Append(acc, Head(indices))
         ELSE candidate_songs(Tail(indices), exclude_ids, tracks, candidate_count,
                              Append(acc, Head(indices)))
    ELSE candidate_songs(Tail(indices), exclude_ids, tracks, candidate_count, acc)

\* random.sample(range(n), count): the lists of count distinct positions
Samples(n, count) ==
    {s \in [1..count -> 1..n] : \A i, j \in 1..count : s[i] = s[j] => i = j}

\* the end of find_similar_songs as it would be if it returned the pool whole
select_songs_whole_pool(pool, count) == {pool}

\* the end of find_similar_songs: the pool as it is when it has at most
\* count songs, else the songs at count sampled positions
select_songs(pool, count) ==
    IF Len(pool) <= count THEN {pool}
    ELSE {[i \in 1..count |-> pool[s[i]]] : s \in Samples(Len(pool), count)}

\* PlaylistGenerator.sort_by_bpm: the songs that have features, by
\* bpm * (1 + jitter); the Tracks have one bpm, so the jitter of each song
\* decides the order
sort_by_bpm(tracks, songs) ==
    LET kept == SelectSeq(songs, LAMBDA id : get_features(tracks, id))
    IN {[i \in DOMAIN kept |-> kept[p[i]]] : p \in Orders(Len(kept))}

\* an outcome of generate: an exception, None, or a Playlist
Raised(error, seed_songs, avg) ==
    [kind |-> "error", error |-> error, seed_songs |-> seed_songs, avg |-> avg,
     pool |-> <<>>, songs |-> <<>>]

\* PlaylistGenerator.generate: the outcomes the call can have
generate(tracks, self, seed_data, length, candidate_multiplier, noisy) ==
    IF seed_data = <<>> THEN {Raised("At least one seed is required", <<>>, NoAverage)}
    ELSE
    LET found == find_seed_songs(tracks, seed_data)
        seed_songs == found.songs
        seed_vectors == get_seed_vectors(tracks, seed_songs)
        avg_vector == compute_average_vector(seed_vectors)
        exclude_ids == Range(seed_songs)
        candidate_count == length * candidate_multiplier
        k == candidate_count + Cardinality(exclude_ids) + extra_buffer
    IN IF found.raised THEN {Raised("MultipleResultsFound", <<>>, NoAverage)}
       ELSE IF seed_songs = <<>>
       THEN {Raised("No seed songs found in database", <<>>, NoAverage)}
       ELSE IF seed_vectors = <<>>
       THEN {Raised("No features found for seed songs", seed_songs, NoAverage)}
       ELSE UNION {
              IF r.raised THEN {Raised("search", seed_songs, avg_vector)}
              ELSE LET pool == candidate_songs(r.indices, exclude_ids, tracks,
                                               candidate_count, <<>>)
                   IN UNION {
                        IF similar_songs = <<>>
                        THEN {[kind |-> "none", error |-> "", seed_songs |-> seed_songs,
                               avg |-> avg_vector, pool |-> pool, songs |-> <<>>]}
                        ELSE {[kind |-> "playlist", error |-> "", seed_songs |-> seed_songs,
                               avg |-> avg_vector, pool |-> pool, songs |-> sorted_songs] :
                                 sorted_songs \in sort_by_bpm(tracks, similar_songs)} :
                        similar_songs \in select_songs(pool, length)} :
              r \in search_results(self, avg_vector, k, noisy)}

\* a generator is constructed over a store and a similarity index
NewGenerator(tracks, self) ==
    /\ gen.state = "none"
    /\ gen' = [state |-> "ready", tracks |-> tracks, index |-> self]
    /\ UNCHANGED <<fs, n_mfcc, db, indexFile, memIndex, pc, runVars, events, history,
                   policy, poolVars, simVars, jobVars, raceVars, phaseVars>>

\* generate(seed_data, length, query_noise_scale, candidate_multiplier)
GenerateCall(seed_data, length, candidate_multiplier, noisy) ==
    /\ gen.state = "ready"
    /\ \E out \in generate(gen.tracks, gen.index, seed_data, length,
                           candidate_multiplier, noisy) :
          gen' = [state |-> "done", tracks |-> gen.tracks, index |-> gen.index,
                  seed_data |-> seed_data, length |-> length,
                  candidate_multiplier |-> candidate_multiplier, noisy |-> noisy,
                  out |-> out]
    /\ UNCHANGED <<fs, n_mfcc, db, indexFile, memIndex, pc, runVars, events, history,
                   policy, poolVars, simVars, jobVars, raceVars, phaseVars>>

NextPlaylist ==
    \/ \E tracks \in Stores, self \in GeneratorIndexes : NewGenerator(tracks, self)
    \/ \E seed_data \in SeedLists, length \in Lengths,
          candidate_multiplier \in Multipliers, noisy \in BOOLEAN :
          GenerateCall(seed_data, length, candidate_multiplier, noisy)

InitPlaylist == Init /\ fs = [f \in Files |-> 0]

SpecPlaylist == InitPlaylist /\ [][NextPlaylist]_vars

\* a seed spec resolves: a dict with a non-empty title, artist and album, and
\* a Track of the store carries exactly these three
Resolves(tracks, seed) ==
    /\ seed.kind = "dict"
    /\ seed.title # "" /\ seed.artist # "" /\ seed.album # ""
    /\ \E id \in DOMAIN tracks : /\ tracks[id].title = seed.title
                                 /\ tracks[id].artist = seed.artist
                                 /\ tracks[id].album = seed.album

\* the ValueErrors generate raises for the lack of seeds: for an empty list
\* of specs, and for a list of which none was found
NoSeedsFound == {"At least one seed is required", "No seed songs found in database"}

\* C21: generate fails with the no-seeds error when no seed spec resolves; a
\* spec with a missing field or without an exact match is dropped and does
\* not fail the call when another spec resolves; every seed of the outcome
\* matches one of the specs in all three fields.
C21_SeedValidation ==
    gen.state = "done" =>
        LET resolving == {i \in DOMAIN gen.seed_data : Resolves(gen.tracks, gen.seed_data[i])}
        IN /\ resolving = {} =>
                 gen.out.kind = "error" /\ gen.out.error \in NoSeedsFound
           /\ (resolving # {} /\ resolving # DOMAIN gen.seed_data) =>
                 ~(/\ gen.out.kind = "error"
                   /\ gen.out.error \in NoSeedsFound \cup {"MultipleResultsFound"})
           /\ \A j \in DOMAIN gen.out.seed_songs : \E i \in resolving :
                 LET row == gen.tracks[gen.out.seed_songs[j]]
                     seed == gen.seed_data[i]
                 IN /\ row.title = seed.title
                    /\ row.artist = seed.artist
                    /\ row.album = seed.album

RECURSIVE SeedCoordinateSum(_, _)
\* the sum of the only coordinate of the vectors of the seeds at positions S
SeedCoordinateSum(seed_songs, S) ==
    IF S = {} THEN 0
    ELSE LET i == Min(S)
         IN SongVector(seed_songs[i], 1)[1] + SeedCoordinateSum(seed_songs, S \ {i})

\* C22: generate raises 'No features found for seed songs' exactly when
\* find_seed_songs found a seed and no seed it found has features; the query
\* vector is the mean of the vectors of exactly the found seeds that have
\* features.
C22_SeedVectorization ==
    gen.state = "done" =>
        LET found == find_seed_songs(gen.tracks, gen.seed_data)
            featured == {i \in DOMAIN found.songs : gen.tracks[found.songs[i]].features}
        IN /\ (gen.out.kind = "error" /\ gen.out.error = "No features found for seed songs")
                <=> (~found.raised /\ found.songs # <<>> /\ featured = {})
           /\ (~found.raised /\ featured # {}) => gen.out.avg # NoAverage
           /\ gen.out.avg # NoAverage =>
                 /\ gen.out.avg.n = Cardinality(featured)
                 /\ gen.out.avg.sum = <<SeedCoordinateSum(found.songs, featured)>>

\* C22 witness: a playlist was generated from two found seeds of which one
\* has no features
C22_Witness ==
    /\ gen.state = "done"
    /\ gen.out.kind = "playlist"
    /\ Len(gen.out.seed_songs) = 2
    /\ gen.out.avg.n = 1

\* the ids the search returns that are no seed and resolve to a Track with features
UsableIds(g) ==
    {id \in IndexIds(g.index.index) :
        id \notin Range(g.out.seed_songs) /\ id \in DOMAIN g.tracks /\ g.tracks[id].features}

\* C23: when the seeds resolve and have vectors and the search returns no
\* usable track, generate returns None; a Playlist it returns has songs.
C23_NoneWhenNoCandidates ==
    gen.state = "done" =>
        /\ (gen.out.avg # NoAverage /\ gen.out.error # "search" /\ UsableIds(gen) = {})
              => gen.out.kind = "none"
        /\ gen.out.kind = "playlist" => gen.out.songs # <<>>

\* C23 witness: generate returned None over an index whose ids are seeds,
\* ids without a Track, or Tracks without features
C23_Witness ==
    /\ gen.state = "done"
    /\ gen.out.kind = "none"
    /\ Cardinality(IndexIds(gen.index.index)) >= 2
    /\ IndexIds(gen.index.index) \cap Range(gen.out.seed_songs) # {}

\* C24: no Track found as a seed, with or without features, is among the
\* songs of the Playlist.
C24_SeedsExcluded ==
    (gen.state = "done" /\ gen.out.kind = "playlist") =>
        LET found == find_seed_songs(gen.tracks, gen.seed_data)
        IN /\ Range(gen.out.songs) \cap Range(found.songs) = {}
           /\ gen.out.seed_songs = found.songs

\* C24 witness: a playlist from a seed that the index holds and a seed
\* without features
C24_Witness ==
    /\ gen.state = "done"
    /\ gen.out.kind = "playlist"
    /\ Range(gen.out.seed_songs) \cap IndexIds(gen.index.index) # {}
    /\ \E id \in Range(gen.out.seed_songs) : ~gen.tracks[id].features

\* how often id occurs in s
Occurrences(s, id) == Cardinality({i \in DOMAIN s : s[i] = id})

\* C25: find_similar_songs returns the pool as it is when the pool has at
\* most count songs, and count songs of distinct positions of the pool when
\* it has more; the Playlist has at most length songs, each with features,
\* each from the pool and each an id the search returned.
C25_DiversitySampling ==
    gen.state = "done" =>
        /\ \A similar_songs \in select_songs(gen.out.pool, gen.length) :
              /\ Len(gen.out.pool) <= gen.length => similar_songs = gen.out.pool
              /\ Len(gen.out.pool) > gen.length =>
                    /\ Len(similar_songs) = gen.length
                    /\ \A id \in Range(similar_songs) :
                          Occurrences(similar_songs, id) <= Occurrences(gen.out.pool, id)
        /\ gen.out.kind = "playlist" =>
              /\ Len(gen.out.songs) <= gen.length
              /\ Len(gen.out.pool) <= gen.length =>
                    \A id \in Range(gen.out.pool) :
                        Occurrences(gen.out.songs, id) = Occurrences(gen.out.pool, id)
              /\ \A id \in Range(gen.out.songs) :
                    /\ gen.tracks[id].features
                    /\ id \in IndexIds(gen.index.index)
                    /\ Occurrences(gen.out.songs, id) <= Occurrences(gen.out.pool, id)

\* C25 witness: a playlist of length songs sampled from a larger pool
C25_Witness ==
    /\ gen.state = "done"
    /\ gen.out.kind = "playlist"
    /\ Len(gen.out.pool) > gen.length
    /\ Len(gen.out.songs) = gen.length

\* ------------------------------------------------------------------ JobManager and the progress callback

\* jobs created in one process
MaxJobs == 2

\* files a phase called with a callback has to handle
MaxTotal == 2

\* JobStatus(job_id): the job ids are the positions in _jobs
NewJobStatus == [status |-> "queued", progress |-> "", error |-> ""]

\* the progress dicts run_indexing_job itself passes to update_progress
Progresses == {"scanning", "completed"}

\* the parameters, after self, of the methods of LibraryIndexer that the
\* route and the tests call with progress_callback=...
Parameters(callee) ==
    CASE callee = "index_library" -> {"library_path"}
      [] callee = "extract_metadata_phase" -> {"files"}
      [] callee = "extract_features_phase" -> {}

Callees == {"index_library", "extract_metadata_phase", "extract_features_phase"}

\* Python binds the keyword arguments of a call to the parameters of the
\* callee and raises TypeError for a keyword it does not have
Binds(callee, keywords) == keywords \subseteq Parameters(callee)

\* JobManager.create_job
create_job(js) == Append(js, NewJobStatus)

\* JobManager.start_job
start_job(js, job_id) ==
    IF job_id \in DOMAIN js THEN [js EXCEPT ![job_id].status = "running"] ELSE js

\* JobManager.update_progress
update_progress(js, job_id, progress) ==
    IF job_id \in DOMAIN js THEN [js EXCEPT ![job_id].progress = progress] ELSE js

\* JobManager.complete_job
complete_job(js, job_id) ==
    IF job_id \in DOMAIN js THEN [js EXCEPT ![job_id].status = "completed"] ELSE js

\* JobManager.fail_job
fail_job(js, job_id, error) ==
    IF job_id \in DOMAIN js
    THEN [js EXCEPT ![job_id].status = "failed", ![job_id].error = error]
    ELSE js

\* get_active_job as it would be if it looked for running jobs only
get_active_job_running(js) ==
    LET active == {j \in DOMAIN js : js[j].status = "running"}
    IN IF active = {} THEN 0 ELSE Min(active)

\* JobManager.get_active_job: the first job of _jobs that is queued or
\* running, None (0) when there is none
get_active_job(js) ==
    LET active == {j \in DOMAIN js : js[j].status \in {"queued", "running"}}
    IN IF active = {} THEN 0 ELSE Min(active)

JobFrame ==
    UNCHANGED <<fs, n_mfcc, db, indexFile, memIndex, pc, runVars, events, history,
                policy, poolVars, simVars, genVars, raceVars, phaseVars>>

CreateJob ==
    /\ Len(jobs) < MaxJobs
    /\ jobs' = create_job(jobs)
    /\ UNCHANGED cb
    /\ JobFrame

StartJob(job_id) ==
    /\ jobs' = start_job(jobs, job_id)
    /\ UNCHANGED cb
    /\ JobFrame

UpdateProgress(job_id, progress) ==
    /\ jobs' = update_progress(jobs, job_id, progress)
    /\ UNCHANGED cb
    /\ JobFrame

CompleteJob(job_id) ==
    /\ jobs' = complete_job(jobs, job_id)
    /\ UNCHANGED cb
    /\ JobFrame

FailJob(job_id) ==
    /\ jobs' = fail_job(jobs, job_id, "error")
    /\ UNCHANGED cb
    /\ JobFrame

\* a method of LibraryIndexer is called with the given keywords for a
\* library of `total` files to handle: the call raises TypeError when a
\* keyword does not bind; no method of the class calls a callback
CallIndexer(callee, keywords, total) ==
    /\ cb.state = "none"
    /\ cb' = [state |-> "called", callee |-> callee, keywords |-> keywords,
              total |-> total, raised |-> ~Binds(callee, keywords), calls |-> <<>>]
    /\ UNCHANGED jobs
    /\ JobFrame

\* run_indexing_job(job_id, library_path, ...), the background task of
\* POST /index: start_job, the checks of the path, the 'scanning' progress,
\* index_library(library_path, progress_callback=progress_callback), and
\* complete_job, or fail_job in the handler of any exception
RunIndexingJob(job_id, path_is_dir, total) ==
    /\ cb.state = "none"
    /\ job_id \in DOMAIN jobs
    /\ jobs[job_id].status = "queued"
    /\ LET started == start_job(jobs, job_id)
           scanning == update_progress(started, job_id, "scanning")
       IN IF ~path_is_dir
          THEN /\ jobs' = fail_job(started, job_id, "error")
               /\ UNCHANGED cb
          ELSE IF ~Binds("index_library", {"library_path", "progress_callback"})
          THEN /\ jobs' = fail_job(scanning, job_id, "TypeError")
               /\ cb' = [state |-> "called", callee |-> "index_library",
                         keywords |-> {"library_path", "progress_callback"},
                         total |-> total, raised |-> TRUE, calls |-> <<>>]
          ELSE /\ jobs' = complete_job(update_progress(scanning, job_id, "completed"), job_id)
               /\ cb' = [state |-> "called", callee |-> "index_library",
                         keywords |-> {"library_path", "progress_callback"},
                         total |-> total, raised |-> FALSE, calls |-> <<>>]
    /\ JobFrame

NextJobs ==
    \/ CreateJob
    \/ \E job_id \in 1..MaxJobs : StartJob(job_id)
    \/ \E job_id \in 1..MaxJobs, progress \in Progresses : UpdateProgress(job_id, progress)
    \/ \E job_id \in 1..MaxJobs : CompleteJob(job_id)
    \/ \E job_id \in 1..MaxJobs : FailJob(job_id)
    \/ \E callee \in Callees, total \in 0..MaxTotal :
          CallIndexer(callee, IF callee = "extract_features_phase" THEN {"progress_callback"}
                              ELSE Parameters(callee) \cup {"progress_callback"}, total)
    \/ \E callee \in Callees, total \in 0..MaxTotal : CallIndexer(callee, Parameters(callee), total)
    \/ \E job_id \in 1..MaxJobs, path_is_dir \in BOOLEAN, total \in 0..MaxTotal :
          RunIndexingJob(job_id, path_is_dir, total)

InitJobs == Init /\ fs = [f \in Files |-> 0]

SpecJobs == InitJobs /\ [][NextJobs]_vars

\* the calls a callback receives from a phase that handles `total` units
ProgressCalls(phase, total) ==
    [i \in 1..total |-> [phase |-> phase, processed |-> i, total |-> total]]

\* C26: a call of extract_metadata_phase, extract_features_phase or
\* index_library with progress_callback= is accepted, and the callback then
\* receives ('metadata', i, total) for i = 1..total from the metadata phase
\* and one call with 'features' and the total per completed task from the
\* feature phase.
C26_ProgressReported ==
    (cb.state = "called" /\ "progress_callback" \in cb.keywords) =>
        /\ ~cb.raised
        /\ cb.callee = "extract_metadata_phase" =>
              cb.calls = ProgressCalls("metadata", cb.total)
        /\ cb.callee = "extract_features_phase" =>
              cb.calls = ProgressCalls("features", cb.total)

\* the jobs of _jobs that are queued or running
ActiveJobs(js) == {j \in DOMAIN js : js[j].status \in {"queued", "running"}}

\* C30: get_active_job returns a job exactly when a job is queued or
\* running, and then one of these; a job is queued after create_job, running
\* after start_job and not active after complete_job and fail_job.
C30_ActiveJob ==
    /\ [](/\ get_active_job(jobs) # 0 <=> ActiveJobs(jobs) # {}
          /\ get_active_job(jobs) # 0 => get_active_job(jobs) \in ActiveJobs(jobs))
    /\ [][/\ CreateJob =>
               /\ jobs'[Len(jobs')].status = "queued"
               /\ get_active_job(jobs') # 0
          /\ \A job_id \in DOMAIN jobs :
               /\ StartJob(job_id) =>
                     jobs'[job_id].status = "running" /\ get_active_job(jobs') # 0
               /\ (CompleteJob(job_id) \/ FailJob(job_id)) =>
                     /\ job_id \notin ActiveJobs(jobs')
                     /\ get_active_job(jobs') # job_id]_vars

\* C30 witness: the first job has completed and a later one is the active job
C30_Witness ==
    /\ Len(jobs) >= 2
    /\ jobs[1].status = "completed"
    /\ get_active_job(jobs) = 2

\* ------------------------------------------------------------------ a search while the index is rebuilt or its file rewritten

\* what the steps of the two threads leave alone
RaceFrame ==
    UNCHANGED <<fs, n_mfcc, db, indexFile, memIndex, pc, runVars, events, history,
                policy, poolVars, genVars, jobVars, simCall, phaseVars>>

\* the calls of build_index and save that the maintenance thread makes
MaxCalls == 3

\* the thread of the maintenance step is between two calls
WriterIdle == [pc |-> "idle", calls |-> writer.calls]

\* the object and the file as they were before the call the writer is in,
\* and as they are when it has returned
PrevObject == IF writer.pc = "idle" THEN sim ELSE writer.prev
NewObject == IF writer.pc = "idle" THEN sim ELSE writer.new
PrevFile == IF writer.pc = "idle" THEN simFile ELSE writer.prevFile
NewFile == IF writer.pc = "idle" THEN simFile ELSE writer.newFile

\* build_index, lines 54-60: the checks, then self._dimension = vectors.shape[1]
BuildIndexBegin(vectors, song_ids) ==
    /\ writer.pc = "idle"
    /\ writer.calls < MaxCalls
    /\ LET r == sim_build_index(sim, vectors, song_ids)
       IN IF r.raised
          THEN UNCHANGED <<sim, writer>>
          ELSE /\ sim' = [sim EXCEPT !.dimension = vectors.d]
               /\ writer' = [pc |-> "build_60", calls |-> writer.calls + 1, prev |-> sim, new |-> r.self,
                             prevFile |-> simFile, newFile |-> simFile]
    /\ UNCHANGED <<simFile, reader>>
    /\ RaceFrame

\* build_index, lines 62-63: self._index = faiss.IndexIDMap(IndexFlatL2(d))
BuildIndexAssign ==
    /\ writer.pc = "build_60"
    /\ sim' = [sim EXCEPT !.index = [state |-> "ok", d |-> sim.dimension, items |-> <<>>]]
    /\ writer' = [writer EXCEPT !.pc = "build_63"]
    /\ UNCHANGED <<simFile, reader>>
    /\ RaceFrame

\* build_index, line 68: self._index.add_with_ids(vectors, song_ids)
BuildIndexAddWithIds ==
    /\ writer.pc = "build_63"
    /\ sim' = writer.new
    /\ writer' = WriterIdle
    /\ UNCHANGED <<simFile, reader>>
    /\ RaceFrame

\* save, lines 105-111: faiss.write_index opens the file at faiss_index_path
\* for writing, which empties it
SaveOpen ==
    /\ writer.pc = "idle"
    /\ writer.calls < MaxCalls
    /\ LET r == sim_save(sim, simFile)
       IN IF r.raised
          THEN UNCHANGED <<simFile, writer>>
          ELSE /\ simFile' = [state |-> "ok", bytes |-> <<>>]
               /\ writer' = [pc |-> "save_open", calls |-> writer.calls + 1, prev |-> sim, new |-> sim,
                             prevFile |-> simFile, newFile |-> r.file]
    /\ UNCHANGED <<sim, reader>>
    /\ RaceFrame

\* write_index: d and ntotal are on disk
SaveWriteHeader ==
    /\ writer.pc = "save_open"
    /\ simFile' = [simFile EXCEPT !.bytes = SubSeq(writer.newFile.bytes, 1, 2)]
    /\ writer' = [writer EXCEPT !.pc = "save_header"]
    /\ UNCHANGED <<sim, reader>>
    /\ RaceFrame

\* write_index: the vectors and the id map are on disk, the file is closed
SaveWriteRest ==
    /\ writer.pc = "save_header"
    /\ simFile' = writer.newFile
    /\ writer' = WriterIdle
    /\ UNCHANGED <<sim, reader>>
    /\ RaceFrame

\* search on an object whose _dimension and _index differ in dimension: the
\* check of line 88 passes on _dimension and faiss refuses the query
race_search(self, query_vector, k) ==
    IF /\ self.index # NoIndex
       /\ Len(query_vector) = self.dimension
       /\ self.index.d # self.dimension
    THEN [self |-> self, raised |-> TRUE, result |-> <<>>]
    ELSE sim_search(self, query_vector, k)

\* what search reads of the object: _index, and _dimension only when _index
\* is not None (lines 85-88)
ReadBySearch(self) == IF self.index = NoIndex THEN FreshIndex ELSE self

\* what a search finds in an object: the fields it read and what it returned
Observation(self, query_vector, k) ==
    [self |-> ReadBySearch(self),
     raised |-> race_search(self, query_vector, k).raised,
     result |-> race_search(self, query_vector, k).result]

\* a request thread searches the object the writer works on: what it saw,
\* next to the object before and after the writer's call
RaceSearch(query_vector, k) ==
    /\ reader' = [state |-> "observed", op |-> "search", during |-> writer.pc,
                  saw |-> Observation(sim, query_vector, k),
                  prev |-> Observation(PrevObject, query_vector, k),
                  new |-> Observation(NewObject, query_vector, k)]
    /\ UNCHANGED <<sim, simFile, writer>>
    /\ RaceFrame

\* a reader makes its own object and loads the file (get_similarity_index,
\* the playlist command): what it got, next to what the file gave before and
\* gives after the writer's call
RaceLoad ==
    /\ reader' = [state |-> "observed", op |-> "load", during |-> writer.pc,
                  saw |-> sim_load(FreshIndex, simFile),
                  prev |-> sim_load(FreshIndex, PrevFile),
                  new |-> sim_load(FreshIndex, NewFile)]
    /\ UNCHANGED <<sim, simFile, writer>>
    /\ RaceFrame

NextRace ==
    \/ \E d \in Dims, n \in 0..MaxVectors, ids \in SeqsUpTo(SongIds, MaxVectors) :
          BuildIndexBegin(ArrayFor(d, n, ids), ids)
    \/ BuildIndexAssign
    \/ BuildIndexAddWithIds
    \/ SaveOpen
    \/ SaveWriteHeader
    \/ SaveWriteRest
    \/ \E d \in Dims, k \in Ks : \E q \in VectorsOfDim(d) : RaceSearch(q, k)
    \/ RaceLoad

\* the two threads alone: the library is empty and no run is started
InitRace == Init /\ fs = [f \in Files |-> 0]

SpecRace == InitRace /\ [][NextRace]_vars

\* C27: a reader never observes the index mid-rebuild: what a search sees
\* while build_index runs on the object, and what a load gets while save
\* rewrites the file, is the complete previous index or the complete new one
C27_NoMidRebuild ==
    (reader.state = "observed" /\ reader.during # "idle")
        => reader.saw \in {reader.prev, reader.new}

\* ------------------------------------------------------------------ the store under a second indexing job

\* a second run_indexing_job (POST /api/index does not look for an active
\* job), with its own config, is in its feature phase: one of its futures
\* completes with features and it stores them under the row of the path
OtherJobStores(f, n) ==
    /\ f \in DOMAIN db.songs
    /\ fs[f] > 0
    /\ db' = add_song(db, db.songs[f], extract_features(f, fs, n))
    /\ UNCHANGED <<fs, n_mfcc, indexFile, memIndex, pc, runVars, events, history,
                   policy, aux>>

\* the runs of index_library over a library whose files are only removed,
\* next to the other job
NextStore ==
    \/ \E f \in Files : RemoveFile(f)
    \/ StartRun
    \/ MetaStep
    \/ FeatStart
    \/ \E f \in Files : FeatOk(f)
    \/ \E f \in Files : FeatFail(f)
    \/ CleanStep
    \/ MaintStep
    \/ SaveStep
    \/ Kill
    \/ Exit
    \/ \E f \in Files, n \in NMfccChoices : OtherJobStores(f, n)

\* the library holds every file
InitStore == Init /\ fs = [f \in Files |-> 1]

SpecStore == InitStore /\ [][NextStore]_vars

\* the Track a feature vector is stored under, if there is one
TracksOf(d, song_id) == {f \in DOMAIN d.songs : d.songs[f].id = song_id}

\* C28: in every durable state, the one an interrupt in the feature phase
\* leaves included, every stored feature vector belongs to exactly one stored
\* Track; storing features for a Track that has some overwrites them: the
\* store holds as many vectors as before, the Track's is the new one and the
\* other Tracks' are as they were.
C28_StoreReferential ==
    /\ [](\A i \in DOMAIN db.features : Cardinality(TracksOf(db, i)) = 1)
    /\ [][\A f \in DOMAIN db.songs :
            LET id == db.songs[f].id
                overwritten(vec) ==
                    /\ DOMAIN db'.features = DOMAIN db.features
                    /\ db'.features[id] = vec
                    /\ \A i \in DOMAIN db.features \ {id} : db'.features[i] = db.features[i]
            IN id \in DOMAIN db.features =>
                  /\ FeatOk(f) => overwritten(extract_features(f, fs, n_mfcc))
                  /\ \A n \in NMfccChoices :
                        OtherJobStores(f, n) => overwritten(extract_features(f, fs, n))]_vars

\* C28 witness: the run is in the middle of its feature phase, where an
\* interrupt leaves the store as it is: every future it has handled gave
\* features, one is still pending, and the vector of a Track it has stored
\* has since been overwritten by the other job, with another dimension
C28_Witness ==
    /\ pc = "featwait"
    /\ pending # {}
    /\ featuresCount = Cardinality(submitted \ pending)
    /\ \E f \in submitted \ pending :
          /\ f \in DOMAIN db.songs
          /\ db.songs[f].id \in DOMAIN db.features
          /\ db.features[db.songs[f].id].dim # FeatureDim(n_mfcc)

\* ------------------------------------------------------------------ the dimension of the deployment

\* the dimensions of the feature vectors in the store and in the index file
StoredDims(d, file) ==
    {d.features[i].dim : i \in DOMAIN d.features}
    \cup (IF file.state = "ok" THEN {file.items[k].vec.dim : k \in DOMAIN file.items}
          ELSE {})

\* C29: all feature vectors in the store and all vectors in the index share
\* one dimension: a run that extracts a vector of another dimension than the
\* established one aborts and does not store it.
C29_OneDimension ==
    Cardinality(StoredDims(db, indexFile)) <= 1

\* ------------------------------------------------------------------ the pipeline, phase by phase

\* C31: the files the feature phase submits are exactly the Tracks that have
\* no feature vector in the store when the phase starts, whatever this run's
\* change detection selected, and the phase submits nothing later.
C31_WorkListFromStore ==
    [][/\ (pc = "feat" /\ pc' \in {"featwait", "clean"}) =>
             submitted' = {f \in DOMAIN db.songs : db.songs[f].id \notin DOMAIN db.features}
       /\ (pc = "featwait" /\ pc' \in {"featwait", "clean"}) => submitted' = submitted]_vars

\* C31 witness: the phase has submitted a file that this run's change
\* detection did not select: an earlier run left its Track without features
C31_Witness ==
    /\ pc = "featwait"
    /\ \E f \in submitted : f \notin Range(filesToProcess)

\* C32: on the incremental path the ids passed to add_vectors are exactly the
\* ids of the Tracks that have a feature vector and are not in the loaded
\* index: none that the index holds, and every one it does not hold.
C32_IncrementalAddsNew ==
    [][(pc = "maint" /\ maintPath' = "incremental" /\ pc' \in {"save", "done"}) =>
          LET held == Len(indexFile.items)
              added == {memIndex'.items[k].id : k \in (held + 1)..Len(memIndex'.items)}
          IN /\ added = FeaturedIds(db) \ IndexIds(indexFile)
             /\ Len(memIndex'.items) - held = Cardinality(added)]_vars

\* ------------------------------------------------------------------ the metadata phase and its commits

\* the files one extract_metadata_phase call may be given
MaxMetaFiles == 3

MetaFiles == 1..MaxMetaFiles

\* config.batch_size, as a run may configure it
BatchSizes == {1, 2}

\* the files on disk during the phase: each present, with the newest mtime
MetaDisk == [f \in MetaFiles |-> MaxMtime]

\* the lists of distinct files get_files_to_process may return
MetaLists ==
    {l \in UNION {[1..n -> MetaFiles] : n \in 1..MaxMetaFiles} :
        \A i, j \in DOMAIN l : i # j => l[i] # l[j]}

\* the stores the phase may start from: an empty one, and one that holds
\* file 1 as an earlier run left it
MetaStores ==
    {[songs |-> <<>>, features |-> <<>>],
     [songs |-> (1 :> [id |-> 1, file_path |-> 1, title |-> "basename",
                       last_modified |-> 1]),
      features |-> <<>>]}

\* extract_metadata_phase is called with `files`
MetaPhaseBegin(files, batch_size, d) ==
    /\ meta.state = "none"
    /\ meta' = [state |-> "loop", batch_size |-> batch_size, files |-> files,
                started |-> 0, processed |-> 0, before |-> d,
                committed |-> d, session |-> d]
    /\ UNCHANGED <<fs, n_mfcc, db, indexFile, memIndex, pc, runVars, events, history,
                   policy, poolVars, simVars, genVars, jobVars, raceVars, workers>>

\* the loop body up to the writes of add_song: the row is changed or added
\* in the session, and nothing of it is durable yet
MetaPhaseAddSong ==
    /\ meta.state = "loop"
    /\ meta.processed < Len(meta.files)
    /\ meta' = [meta EXCEPT
                  !.state = "added",
                  !.started = @ + 1,
                  !.session = add_song(@, MetaSong(meta.files[meta.processed + 1],
                                                   MetaDisk), NoFeatures)]
    /\ UNCHANGED <<fs, n_mfcc, db, indexFile, memIndex, pc, runVars, events, history,
                   policy, poolVars, simVars, genVars, jobVars, raceVars, workers>>

\* the loop body as it would be if the store were committed only when the
\* phase ends
MetaPhaseCommit_at_end ==
    /\ meta.state = "added"
    /\ meta' = [meta EXCEPT !.state = "loop", !.processed = @ + 1]
    /\ UNCHANGED <<fs, n_mfcc, db, indexFile, memIndex, pc, runVars, events, history,
                   policy, poolVars, simVars, genVars, jobVars, raceVars, workers>>

\* session.commit() at the end of add_song, processed += 1 and the commit
\* of a full batch
MetaPhaseCommit ==
    /\ meta.state = "added"
    /\ LET afterAdd == [meta EXCEPT !.committed = meta.session,
                                    !.processed = @ + 1]
       IN meta' = IF afterAdd.processed % meta.batch_size = 0
                  THEN [afterAdd EXCEPT !.state = "loop",
                                        !.committed = afterAdd.session]
                  ELSE [afterAdd EXCEPT !.state = "loop"]
    /\ UNCHANGED <<fs, n_mfcc, db, indexFile, memIndex, pc, runVars, events, history,
                   policy, poolVars, simVars, genVars, jobVars, raceVars, workers>>

\* the commit after the loop, and the return
MetaPhaseEnd ==
    /\ meta.state = "loop"
    /\ meta.processed = Len(meta.files)
    /\ meta' = [meta EXCEPT !.state = "returned", !.committed = meta.session]
    /\ UNCHANGED <<fs, n_mfcc, db, indexFile, memIndex, pc, runVars, events, history,
                   policy, poolVars, simVars, genVars, jobVars, raceVars, workers>>

\* the process dies inside the phase: what the session had not committed is
\* gone
MetaPhaseCrash ==
    /\ meta.state \in {"loop", "added"}
    /\ meta' = [meta EXCEPT !.state = "crashed", !.session = meta.committed]
    /\ UNCHANGED <<fs, n_mfcc, db, indexFile, memIndex, pc, runVars, events, history,
                   policy, poolVars, simVars, genVars, jobVars, raceVars, workers>>

NextMeta ==
    \/ \E l \in MetaLists, b \in BatchSizes, d \in MetaStores : MetaPhaseBegin(l, b, d)
    \/ MetaPhaseAddSong
    \/ MetaPhaseCommit
    \/ MetaPhaseEnd
    \/ MetaPhaseCrash

SpecMeta == Init /\ [][NextMeta]_vars

\* the files the phase has handed to add_song whose row is not durable
NotDurable ==
    {i \in 1..meta.started :
        \/ meta.files[i] \notin DOMAIN meta.committed.songs
        \/ meta.committed.songs[meta.files[i]].last_modified # MetaDisk[meta.files[i]]}

\* C33: at every point of extract_metadata_phase, a crash included, at most
\* batch_size of the files handed to add_song have no durable row, and every
\* durable row of a file of the phase is a whole row: the one the store
\* held before the phase, or the one with the id, the title and the mtime
\* that add_song writes.
C33_CrashLosesAtMostBatch ==
    meta.state # "none" =>
        /\ Cardinality(NotDurable) <= meta.batch_size
        /\ \A f \in Range(meta.files) :
              f \in DOMAIN meta.committed.songs =>
                 \/ /\ f \in DOMAIN meta.before.songs
                    /\ meta.committed.songs[f] = meta.before.songs[f]
                 \/ /\ meta.committed.songs[f].id > 0
                    /\ meta.committed.songs[f].file_path = f
                    /\ meta.committed.songs[f].title = extract_metadata(f, MetaDisk)
                    /\ meta.committed.songs[f].last_modified = MetaDisk[f]

\* C33 witness: the phase crashed inside add_song after more files than one
\* batch were processed; the rows of the processed files are durable and
\* the row of the file in hand is not.
C33_Witness ==
    /\ meta.state = "crashed"
    /\ meta.processed > meta.batch_size
    /\ meta.started = meta.processed + 1
    /\ NotDurable = {meta.started}

\* ------------------------------------------------------------------ the feature phase, thread by thread

\* the files on disk during the phase
WorkerDisk == [f \in Files |-> 1]

\* the stores the phase may start from: every file has a row and no
\* features, with the ids in the order of the paths or against it
WorkerStores ==
    {[songs |-> [f \in Files |-> [id |-> f, file_path |-> f, title |-> "tags",
                                  last_modified |-> 1]],
      features |-> <<>>],
     [songs |-> [f \in Files |-> [id |-> NumFiles + 1 - f, file_path |-> f,
                                  title |-> "tags", last_modified |-> 1]],
      features |-> <<>>]}

\* what _worker_thread_file gives its future: features, (path, None, None),
\* or an exception
WorkerResults == {"features", "none", "raised"}

\* get_songs_without_features, and one executor.submit per file
WorkersSubmit(d) ==
    /\ workers.state = "none"
    /\ LET paths == feature_file_paths(d)
       IN workers' = [state |-> "loop", store |-> d, file_paths |-> paths,
                      result |-> [i \in DOMAIN paths |-> "running"],
                      completed |-> <<>>, yielded |-> 0, writing |-> 0,
                      written |-> <<>>, processed |-> 0]
    /\ UNCHANGED <<fs, n_mfcc, db, indexFile, memIndex, pc, runVars, events, history,
                   policy, poolVars, simVars, genVars, jobVars, raceVars, meta>>

\* _worker_thread_file on a pool thread as it would be if the task stored
\* the features it computed
WorkerReturns_and_stores(i, r) ==
    /\ workers.state = "loop"
    /\ i \in DOMAIN workers.result
    /\ workers.result[i] = "running"
    /\ workers' = [workers EXCEPT
                     !.result[i] = r,
                     !.completed = Append(@, i),
                     !.store = IF r = "features"
                               THEN add_song(@, @.songs[workers.file_paths[i]],
                                             extract_features(workers.file_paths[i],
                                                              WorkerDisk, n_mfcc))
                               ELSE @]
    /\ UNCHANGED <<fs, n_mfcc, db, indexFile, memIndex, pc, runVars, events, history,
                   policy, poolVars, simVars, genVars, jobVars, raceVars, meta>>

\* _worker_thread_file on a pool thread: analyzer.extract_features and the
\* tuple it returns; the future is done
WorkerReturns(i, r) ==
    /\ workers.state = "loop"
    /\ i \in DOMAIN workers.result
    /\ workers.result[i] = "running"
    /\ workers' = [workers EXCEPT !.result[i] = r, !.completed = Append(@, i)]
    /\ UNCHANGED <<fs, n_mfcc, db, indexFile, memIndex, pc, runVars, events, history,
                   policy, poolVars, simVars, genVars, jobVars, raceVars, meta>>

\* as_completed yields the next done future and future.result() gives its
\* outcome: with features the thread of index_library enters
\* get_song_by_path and add_song, otherwise it logs and goes on
PipelineTakes ==
    /\ workers.state = "loop"
    /\ workers.writing = 0
    /\ workers.yielded < Len(workers.completed)
    /\ LET i == workers.completed[workers.yielded + 1]
       IN workers' = IF workers.result[i] = "features"
                     THEN [workers EXCEPT !.writing = i]
                     ELSE [workers EXCEPT !.yielded = @ + 1]
    /\ UNCHANGED <<fs, n_mfcc, db, indexFile, memIndex, pc, runVars, events, history,
                   policy, poolVars, simVars, genVars, jobVars, raceVars, meta>>

\* add_song returns, its commit done; processed += 1 and the commit of a
\* full batch
PipelineWrites ==
    /\ workers.state = "loop"
    /\ workers.writing # 0
    /\ LET f == workers.file_paths[workers.writing]
       IN workers' = [workers EXCEPT
                        !.store = add_song(@, @.songs[f],
                                           extract_features(f, WorkerDisk, n_mfcc)),
                        !.written = Append(@, workers.writing),
                        !.processed = @ + 1,
                        !.yielded = @ + 1,
                        !.writing = 0]
    /\ UNCHANGED <<fs, n_mfcc, db, indexFile, memIndex, pc, runVars, events, history,
                   policy, poolVars, simVars, genVars, jobVars, raceVars, meta>>

\* every future was yielded: the commit after the loop, and the return
PipelineReturns ==
    /\ workers.state = "loop"
    /\ workers.writing = 0
    /\ workers.yielded = Len(workers.file_paths)
    /\ workers' = [workers EXCEPT !.state = "returned"]
    /\ UNCHANGED <<fs, n_mfcc, db, indexFile, memIndex, pc, runVars, events, history,
                   policy, poolVars, simVars, genVars, jobVars, raceVars, meta>>

NextWorkers ==
    \/ \E d \in WorkerStores : WorkersSubmit(d)
    \/ \E i \in 1..NumFiles, r \in WorkerResults : WorkerReturns(i, r)
    \/ PipelineTakes
    \/ PipelineWrites
    \/ PipelineReturns

SpecWorkers == Init /\ [][NextWorkers]_vars

\* C34: in the feature phase the store changes only in a step in which the
\* thread of index_library leaves add_song; that add_song was entered for
\* the future as_completed yielded, which is the next one in completion
\* order and is done with features; the step stores the features of that
\* one file; and add_song is entered only when no add_song is under way.
C34_SingleWriter ==
    [][workers.state = "loop" =>
         /\ workers'.store # workers.store =>
               /\ workers.writing # 0
               /\ workers'.writing = 0
               /\ workers.writing = workers.completed[workers.yielded + 1]
               /\ workers.result[workers.writing] = "features"
               /\ workers'.store =
                     add_song(workers.store,
                              workers.store.songs[workers.file_paths[workers.writing]],
                              extract_features(workers.file_paths[workers.writing],
                                               WorkerDisk, n_mfcc))
               /\ workers'.written = Append(workers.written, workers.writing)
         /\ (workers'.writing # 0 /\ workers'.writing # workers.writing) =>
               workers.writing = 0]_vars

\* C34 witness: the phase returned with the features of two files stored
\* in completion order, the later-submitted one first.
C34_Witness ==
    /\ workers.state = "returned"
    /\ Len(workers.written) >= 2
    /\ workers.written[1] > workers.written[2]
    /\ workers.completed[1] > workers.completed[2]
    /\ DOMAIN workers.store.features =
          {workers.store.songs[f].id : f \in DOMAIN workers.store.songs}

\* the library and its runs under one configuration
NextRuns ==
    \/ \E f \in Files, m \in 1..MaxMtime : WriteFile(f, m)
    \/ \E f \in Files : RemoveFile(f)
    \/ StartRun
    \/ MetaStep
    \/ FeatStart
    \/ \E f \in Files : FeatOk(f)
    \/ \E f \in Files : FeatFail(f)
    \/ CleanStep
    \/ MaintStep
    \/ SaveStep
    \/ Kill
    \/ Exit

\* every file of the library is there when the first run starts
InitRuns == Init /\ fs = [f \in Files |-> 1]

SpecRuns == InitRuns /\ [][NextRuns]_vars

\* C35: in a run, the index object is built or added to only in the
\* maintenance step and the index file is written only by the save after
\* it, both with no task of the feature phase outstanding and with the rows
\* of the files missing from the scan already deleted; a run that is
\* interrupted in the feature phase has built nothing and leaves the index
\* file as it was.
C35_IndexAfterDrain ==
    [][/\ (memIndex' # memIndex /\ memIndex' # NoIndex) =>
             /\ pc = "maint"
             /\ pending = {}
             /\ DOMAIN db.songs \subseteq Range(allFiles)
       /\ indexFile' # indexFile =>
             /\ pc = "save"
             /\ pending = {}
             /\ DOMAIN db.songs \subseteq Range(allFiles)
       /\ (pc \in {"feat", "featwait"} /\ pc' = "idle") =>
             /\ memIndex = NoIndex
             /\ indexFile' = indexFile]_vars

\* C35 witness: the index is about to be saved in a run that stored
\* features and deleted a row.
C35_Witness ==
    /\ pc = "save"
    /\ featuresCount > 0
    /\ deletedCount > 0
    /\ memIndex # indexFile

\* the durable state of file f in store d
FileState(f, d) ==
    IF f \notin DOMAIN d.songs THEN "NoTrack"
    ELSE IF d.songs[f].id \in DOMAIN d.features THEN "HasFeatures"
    ELSE "MetadataOnly"

\* C36: in every step the durable state of a file stays, or moves from no
\* Track to MetadataOnly, from MetadataOnly to HasFeatures, or from either
\* to no Track; it never moves from no Track to HasFeatures nor from
\* HasFeatures to MetadataOnly, and a Track is deleted only by the cleanup
\* of a run whose scan did not find the file.
C36_FileStateMachine ==
    [][\A f \in Files :
          LET a == FileState(f, db)
              b == FileState(f, db')
          IN /\ a = "NoTrack" => b \in {"NoTrack", "MetadataOnly"}
             /\ a = "MetadataOnly" => b \in {"MetadataOnly", "HasFeatures", "NoTrack"}
             /\ a = "HasFeatures" => b \in {"HasFeatures", "NoTrack"}
             /\ (a # "NoTrack" /\ b = "NoTrack") =>
                   pc = "clean" /\ f \notin Range(allFiles)]_vars

\* C36 witness: a run deleted the Track of a file that is gone, and ran the
\* metadata phase on a file whose Track has features and still has them.
C36_Witness ==
    /\ pc = "maint"
    /\ deletedCount > 0
    /\ \E f \in Range(filesToProcess) :
          /\ FileState(f, db) = "HasFeatures"
          /\ db.features[db.songs[f].id].ver # db.songs[f].last_modified

\* C37: when the metadata phase calls add_song(song, features=None) for a
\* path that has a Track, the Track keeps its id, the store has the same
\* paths and the same ids as before, the title and last_modified of the
\* Track are the ones just read from the file, every other Track is as it
\* was, and the features table is unchanged.
C37_MetadataUpsertFrame ==
    [][(pc = "meta" /\ metaPos' = metaPos + 1
        /\ filesToProcess[metaPos + 1] \in DOMAIN db.songs) =>
          LET f == filesToProcess[metaPos + 1]
          IN /\ db'.songs[f].id = db.songs[f].id
             /\ DOMAIN db'.songs = DOMAIN db.songs
             /\ \A g \in DOMAIN db.songs \ {f} : db'.songs[g] = db.songs[g]
             /\ db'.songs[f].file_path = f
             /\ db'.songs[f].title = extract_metadata(f, fs)
             /\ db'.songs[f].last_modified = fs[f]
             /\ db'.features = db.features]_vars

\* C37 witness: the metadata phase has just updated the Track of a modified
\* file that has features: the row carries the new mtime and the features
\* are the ones computed from the earlier content.
C37_Witness ==
    /\ metaPos > 0
    /\ LET f == filesToProcess[metaPos]
       IN /\ f \in DOMAIN db.songs
          /\ db.songs[f].id \in DOMAIN db.features
          /\ db.songs[f].last_modified = fs[f]
          /\ db.features[db.songs[f].id].ver < db.songs[f].last_modified
          /\ db.features[db.songs[f].id].src = f

\* C38: when a run of index_library has completed, every id of the index
\* file is the id of a Track with features, and the vector the index file
\* holds under that id is the one the store holds for that Track.
C38_IndexMatchesStore ==
    (pc = "done" /\ indexFile.state = "ok") =>
        \A k \in DOMAIN indexFile.items :
            /\ indexFile.items[k].id \in FeaturedIds(db)
            /\ indexFile.items[k].vec = db.features[indexFile.items[k].id]

\* ------------------------------------------------------------------ playlists over the library the runs leave

\* the album tag of the file at a path
AlbumOfPath(f) == IF f = 1 THEN "Z" ELSE IF f = 2 THEN "W" ELSE "V"

\* the store as the generator reads it: the Tracks by id, with the tags
\* find_song_exact matches on and whether a features row exists
LibraryTracks(d) ==
    [id \in {d.songs[f].id : f \in DOMAIN d.songs} |->
        LET f == CHOOSE g \in DOMAIN d.songs : d.songs[g].id = id
        IN [title |-> "X", artist |-> "Y", album |-> AlbumOfPath(f),
            features |-> id \in DOMAIN d.features]]

\* SimilarityIndex.load of the index file a run saved: the ids in the order
\* of the file
LibraryIndex(file) ==
    IndexOver([k \in DOMAIN file.items |-> file.items[k].id], 1)

\* between two runs a caller constructs a generator over the store and the
\* saved index and calls generate with one seed, without query noise
GenerateOverLibrary(seed, length) ==
    /\ pc = "idle"
    /\ gen.state = "none"
    /\ indexFile.state = "ok"
    /\ \E out \in generate(LibraryTracks(db), LibraryIndex(indexFile), <<seed>>,
                           length, 1, FALSE) :
          gen' = [state |-> "done", tracks |-> LibraryTracks(db),
                  index |-> LibraryIndex(indexFile), seed_data |-> <<seed>>,
                  length |-> length, candidate_multiplier |-> 1, noisy |-> FALSE,
                  out |-> out]
    /\ UNCHANGED <<fs, n_mfcc, db, indexFile, memIndex, pc, runVars, events, history,
                   policy, poolVars, simVars, jobVars, raceVars, phaseVars>>

\* the library and its runs go on until a playlist is asked for
LibraryStep == gen.state = "none" /\ Next

NextLibrary ==
    \/ LibraryStep
    \/ \E seed \in {SeedXYZ, SeedXYW}, length \in Lengths :
          GenerateOverLibrary(seed, length)

SpecLibrary == Init /\ [][NextLibrary]_vars

\* C39: the songs of a Playlist that generate returns over the store and
\* the index file left by runs of index_library hold each Track at most once.
C39_NoDuplicateTracks ==
    (gen.state = "done" /\ gen.out.kind = "playlist") =>
        \A i, j \in DOMAIN gen.out.songs :
            gen.out.songs[i] = gen.out.songs[j] => i = j

====
